---- MODULE Spec2Model ----
(***************************************************************************)
(* A model of DatabaseConnectionManager (src/database/connection-manager.ts)*)
(* of postgres-mcp: one-shot queries, multi-call transactions and cleanup   *)
(* over one shared pg Pool.                                                  *)
(*                                                                           *)
(* JavaScript runs one callback at a time, so every async method is a       *)
(* process whose atomic steps are the stretches of code between two         *)
(* `await`s.  Each call of a method is a record of `calls`; its `pc` names  *)
(* the await it is suspended at.  A step of a call runs from the await it   *)
(* resumes from up to the next await (or to its return/throw), including    *)
(* every catch/finally block on the way.                                     *)
(*                                                                           *)
(* The pg driver is the environment:                                         *)
(*  - a Pool creates connections lazily up to `max`, hands out an idle      *)
(*    connection or creates one, queues callers when full, and on release   *)
(*    serves the first queued caller or parks the connection as idle;       *)
(*  - client.release() throws when that checkout was already released;      *)
(*  - a client runs the statements submitted to it one at a time, in the    *)
(*    order submitted; each statement succeeds or raises;                   *)
(*  - pool.end() rejects when called twice, closes idle connections, makes  *)
(*    later connect() calls reject, and resolves once every connection has  *)
(*    been released.                                                         *)
(***************************************************************************)
EXTENDS Integers, Sequences, FiniteSets, TLC

\* Bounds of the model.  The general workload: calls made, calls in flight
\* together, and config.pool.max.
MaxOps == 4
MaxInFlight == 2
PoolMax == 2

\* The shutdown workload: transactions, cleanup() and signals only.
ShutdownOps == 5
ShutdownInFlight == 3

\* The contention workload: a pool of ContentionMax connections.
ContentionMax == 1
ContentionInFlight == 3

CallIds == 1..(IF ShutdownOps > MaxOps THEN ShutdownOps ELSE MaxOps)
TxIds == CallIds
Conns == 1..PoolMax
NoConn == 0
NoTx == 0

VARIABLES
  readOnlyMode,        \* config.security.readOnlyMode
  pool,                \* the pg Pool: clients, idle list, pending queue, ending, ended
  connQueue,           \* per connection: the calls whose statement is submitted, in order
  activeTransactions,  \* the registry: contexts in insertion order (a JS Map)
  connectionStats,     \* totalQueries, totalErrors, totalTransactions
  calls,               \* the calls of the manager's methods, started so far
  txState,             \* history: the lifecycle state of every transaction id
  last,                \* history: the call that returned or threw last, and how
  probe,               \* history: a begin and its rollback run with nothing in between
  workload,            \* the callers: how many calls they make, how many at a time
  statementTimeout,    \* per connection: the statement_timeout of its session
  handlers,            \* the cleanup calls made by a SIGINT/SIGTERM handler
  exited,              \* the process has exited
  exec,                \* QueryAPIClient.executeTransaction: one call of it
  schemaApi,           \* SchemaAPIClient: the database's schemas and the calls made
  rateLimiting,        \* config.rateLimiting: maxRequests, windowMs
  now,                 \* Date.now()
  requests,            \* RateLimiter.requests: identifier -> entry
  windows,             \* history: per identifier, the window last opened, its calls and count
  admitted,            \* history: the last checkLimit call and what it returned
  admittedAt,          \* history: per identifier and instant, the calls admitted
                       \* since the last reset of the identifier

  retry,               \* one call of a method wrapped by withRetry
  applied,             \* history: the last application of an ErrorHandler function
  cacheConfig,         \* config.cache: enabled, ttl, maxKeys
  cache,               \* QueryResultCache.cache: the LRUCache, least recently used first
  cacheStats,          \* QueryResultCache.stats
  cacheNow,            \* the clock of the cache
  recent,              \* history: the keys held, by their last use, oldest first
  stored,              \* history: per request, what its last set stored
  returned             \* history: the last call of the cache and what it returned

rateLimiterVars == <<rateLimiting, now, requests, windows, admitted, admittedAt>>

retryVars == <<retry, applied>>

cacheVars == <<cacheConfig, cache, cacheStats, cacheNow, recent, stored, returned>>

managerVars == <<readOnlyMode, pool, connQueue, activeTransactions, connectionStats,
                 calls, txState, last, probe, workload, statementTimeout, handlers,
                 exited>>

vars == <<readOnlyMode, pool, connQueue, activeTransactions, connectionStats,
          calls, txState, last, probe, workload, statementTimeout, handlers, exited,
          exec, schemaApi,
          rateLimiting, now, requests, windows, admitted, admittedAt,
          retry, applied,
          cacheConfig, cache, cacheStats, cacheNow, recent, stored, returned>>

\* what the steps of one component leave alone
\* (the manager's steps move `exec`, the cache's steps may move `schemaApi`)
outsideManager == <<rateLimiterVars, retryVars, cacheVars, schemaApi>>

outsideRateLimiter == <<managerVars, retryVars, cacheVars, exec, schemaApi>>

outsideRetry == <<managerVars, rateLimiterVars, cacheVars, exec, schemaApi>>

outsideCache == <<managerVars, rateLimiterVars, retryVars, exec>>

----------------------------------------------------------------------------
\* Helpers on sequences and sets

SeqToSet(s) == {s[i] : i \in 1..Len(s)}

Last(s) == s[Len(s)]

Front(s) == SubSeq(s, 1, Len(s) - 1)

MinOf(S) == CHOOSE x \in S : \A y \in S : x <= y

----------------------------------------------------------------------------
\* The registry: Map<string, TransactionContext>

RegisteredIds == {activeTransactions[i].id : i \in 1..Len(activeTransactions)}

RegisteredConns == {activeTransactions[i].client : i \in 1..Len(activeTransactions)}

\* activeTransactions.get(transactionId); only used when the id is registered
Context(t) ==
  activeTransactions[CHOOSE i \in 1..Len(activeTransactions) :
                         activeTransactions[i].id = t]

\* activeTransactions.delete(transactionId)
RECURSIVE MapDelete(_, _)
MapDelete(m, t) ==
  IF m = <<>> THEN <<>>
  ELSE IF Head(m).id = t THEN MapDelete(Tail(m), t)
       ELSE <<Head(m)>> \o MapDelete(Tail(m), t)

\* activeTransactions.set(transactionId, context): a new key goes last
MapSet(m, ctx) == Append(MapDelete(m, ctx.id), ctx)

----------------------------------------------------------------------------
\* The pg Pool

TotalCount == Cardinality(pool.clients)

IdleCount == Len(pool.idle)

CheckedOutOf(p) == p.clients \ SeqToSet(p.idle)

CheckedOut == CheckedOutOf(pool)

InUseCount == Cardinality(CheckedOut)

\* pool.connect(): rejected after end(), served at once, or queued
ConnectRejected == pool.ending

ConnectServed == pool.idle # <<>> \/ TotalCount < pool.max

ConnectConn ==
  IF pool.idle # <<>> THEN Last(pool.idle) ELSE MinOf(Conns \ pool.clients)

PoolAfterConnect(c) ==
  IF pool.idle # <<>> THEN [pool EXCEPT !.idle = Front(pool.idle)]
  ELSE IF TotalCount < pool.max
       THEN [pool EXCEPT !.clients = pool.clients \cup {MinOf(Conns \ pool.clients)}]
       ELSE [pool EXCEPT !.pending = Append(pool.pending, c)]

\* the call record of c after `await this.pool.connect()` was issued
AfterConnect(call) ==
  IF ConnectServed
  THEN [call EXCEPT !.pc = "connected", !.client = ConnectConn]
  ELSE [call EXCEPT !.pc = "connecting"]

\* client.release() throws when this checkout is not out any more
ReleaseThrows(conn) == conn \notin CheckedOut

\* a faulty variant of HandsOver: a release never serves a queued caller
HandsOverNever(conn) == FALSE

\* a release that hands the connection to the first queued caller
HandsOver(conn) ==
  /\ ~ReleaseThrows(conn)
  /\ ~pool.ending
  /\ pool.pending # <<>>

PoolAfterRelease(conn) ==
  IF ReleaseThrows(conn) THEN pool
  ELSE IF pool.ending
       THEN [pool EXCEPT !.clients = pool.clients \ {conn},
                         !.ended = (pool.clients \ {conn} = {})]
       ELSE IF pool.pending # <<>>
            THEN [pool EXCEPT !.pending = Tail(pool.pending)]
            ELSE [pool EXCEPT !.idle = Append(pool.idle, conn)]

\* the calls after a release of conn: the first queued caller gets conn
CallsAfterRelease(conn, cs) ==
  IF HandsOver(conn)
  THEN [cs EXCEPT ![Head(pool.pending)].pc = "connected",
                  ![Head(pool.pending)].client = conn]
  ELSE cs

\* pool.end() on pool p, when not rejected: idle connections are closed
PoolAfterEnd(p) ==
  [p EXCEPT !.ending = TRUE,
            !.clients = CheckedOutOf(p),
            !.idle = <<>>,
            !.ended = (CheckedOutOf(p) = {})]

----------------------------------------------------------------------------
\* Calls

NewCall ==
  [op |-> "none", pc |-> "new", tid |-> NoTx, client |-> NoConn,
   flag |-> FALSE, res |-> "none", visited |-> {}, timeout |-> "none"]

\* a call that has returned or thrown keeps nothing
DoneCall == [NewCall EXCEPT !.op = "done", !.pc = "done"]

\* what the caller of call c got: "ok", or the error thrown
Outcome(op, tid, res) == [op |-> op, tid |-> tid, res |-> res]

NoOutcome == Outcome("none", NoTx, "none")

InFlight == {c \in CallIds : calls[c].op # "none" /\ calls[c].pc # "done"}

\* the next call to start takes the next record
CanStart(c) ==
  /\ calls[c].op = "none"
  /\ \A d \in CallIds : d < c => calls[d].op # "none"
  /\ c <= workload.ops
  /\ Cardinality(InFlight) < workload.inFlight

\* uuidv4(): a token no other call gets
NewTransactionId(c) == c

\* client.query(...): the call's statement is queued on the connection
Submit(conn, c) == [connQueue EXCEPT ![conn] = Append(connQueue[conn], c)]

\* the driver has finished the call's statement: it is the oldest on its connection
Finished(c) ==
  /\ calls[c].client # NoConn
  /\ connQueue[calls[c].client] # <<>>
  /\ Head(connQueue[calls[c].client]) = c

Finish(c) == [connQueue EXCEPT ![calls[c].client] = Tail(connQueue[calls[c].client])]

\* a statement can only succeed on a connection that is still open
CanSucceed(c, ok) == ok => calls[c].client \in pool.clients

\* the pool's counts when a beginTransaction started with no call in flight,
\* kept while only that call and then a rollbackTransaction of its id take steps
NoProbe == [stage |-> "off", call |-> 0, tid |-> NoTx, idle |-> 0, inUse |-> 0]

\* the call that starts in this step, or 0
Starting == IF \E c \in CallIds : calls[c].op = "none" /\ calls'[c].op # "none"
            THEN CHOOSE c \in CallIds : calls[c].op = "none" /\ calls'[c].op # "none"
            ELSE 0

\* history only: the probe follows the step just taken
ProbeStep ==
  probe' =
    IF /\ Starting # 0
       /\ calls'[Starting].op = "beginTransaction"
       /\ InFlight = {}
    THEN [stage |-> "begin", call |-> Starting, tid |-> calls'[Starting].tid,
          idle |-> IdleCount, inUse |-> InUseCount]
    ELSE IF /\ probe.stage = "begin"
            /\ Starting = 0
            /\ calls'[probe.call] # calls[probe.call]
    THEN IF calls'[probe.call].pc # "done" THEN probe
         ELSE IF probe.tid \in RegisteredIds' THEN [probe EXCEPT !.stage = "open"]
         ELSE NoProbe
    ELSE IF /\ probe.stage = "open"
            /\ Starting # 0
            /\ calls'[Starting].op = "rollbackTransaction"
            /\ calls'[Starting].tid = probe.tid
    THEN [probe EXCEPT !.stage = "rollback", !.call = Starting]
    ELSE IF /\ probe.stage = "rollback"
            /\ Starting = 0
            /\ calls'[probe.call] # calls[probe.call]
    THEN [probe EXCEPT !.stage = "rolledback"]
    ELSE NoProbe

----------------------------------------------------------------------------
\* SQL text: a statement is a sequence of tokens (white space, a comment, words)

Statements ==
  { <<"SELECT">>, <<"INSERT">>, <<" ", "insert">>, <<"/*c*/", "INSERT">> }

\* line 344-347: the prefixes isWriteOperation looks for
writeOperations ==
  {"INSERT", "UPDATE", "DELETE", "CREATE", "DROP", "ALTER",
   "TRUNCATE", "GRANT", "REVOKE", "COPY"}

\* String.prototype.trim(): leading and trailing white space goes
RECURSIVE trimStart(_)
trimStart(sql) ==
  IF sql # <<>> /\ Head(sql) = " " THEN trimStart(Tail(sql)) ELSE sql

RECURSIVE trimEnd(_)
trimEnd(sql) ==
  IF sql # <<>> /\ Last(sql) = " " THEN trimEnd(Front(sql)) ELSE sql

trim(sql) == trimEnd(trimStart(sql))

\* String.prototype.toUpperCase()
toUpperCase(sql) ==
  [i \in 1..Len(sql) |->
     IF sql[i] = "insert" THEN "INSERT"
     ELSE IF sql[i] = "select" THEN "SELECT"
     ELSE sql[i]]

\* lines 343-351: isWriteOperation(sql)
isWriteOperation(sql) ==
  LET normalizedSql == toUpperCase(trim(sql))
  IN  normalizedSql # <<>> /\ Head(normalizedSql) \in writeOperations

\* what the server does with the statement: it writes when one of its words,
\* in either case, is a writing command
Writes(sql) ==
  \E i \in 1..Len(sql) : toUpperCase(sql)[i] \in writeOperations

\* line 119: options.timeout || this.config.get().security.maxQueryTime
Timeouts == {"default", "custom"}

----------------------------------------------------------------------------
\* The process around the manager: the sessions of the connections, the
\* callers, and the SIGINT/SIGTERM handlers (index.ts lines 1650-1659)

\* a SET statement_timeout that has succeeded in this step changes the session
\* of its connection; a connection that is closed loses its session
SessionStep ==
  statementTimeout' =
    [conn \in Conns |->
       IF conn \notin pool'.clients THEN "server"
       ELSE IF \E c \in CallIds : /\ calls[c].op = "query"
                                  /\ calls[c].pc = "set_wait"
                                  /\ calls'[c].pc = "stmt_wait"
                                  /\ calls[c].client = conn
            THEN LET c == CHOOSE c \in CallIds : /\ calls[c].op = "query"
                                                 /\ calls[c].pc = "set_wait"
                                                 /\ calls'[c].pc = "stmt_wait"
                                                 /\ calls[c].client = conn
                 IN  calls[c].timeout
            ELSE statementTimeout[conn]]

\* QueryAPIClient.executeTransaction (api/domains/query-api.ts lines 94-137), a
\* caller of the manager.  Its pc is the call it awaits ("begin", "statement",
\* "commit", "rollback"), or "loop" (in the try block, about to validate and
\* run the next statement or to commit), "catch" (about to roll back), "done",
\* or "off" when no executeTransaction is made.
NoError == [by |-> "none", res |-> "none"]

NoExec == [pc |-> "off", call |-> 0, tid |-> NoTx, left |-> 0,
           error |-> NoError, raised |-> NoError]

\* the manager's method executeTransaction calls next
ExecCalls ==
  CASE exec.pc = "idle" -> "begin"
    [] exec.pc = "loop" -> IF exec.left > 0 THEN "statement" ELSE "commit"
    [] exec.pc = "catch" -> "rollback"
    [] OTHER -> "none"

\* lines 98-136: the call that e awaited has returned or thrown
ExecAfter(e, outcome) ==
  CASE e.pc = "begin" ->
         IF outcome.res = "ok"
         THEN [e EXCEPT !.pc = "loop", !.call = 0, !.tid = outcome.tid]
         ELSE [e EXCEPT !.pc = "done", !.call = 0,
                        !.raised = [by |-> "beginTransaction", res |-> outcome.res]]
    [] e.pc = "statement" ->
         IF outcome.res = "ok"
         THEN [e EXCEPT !.pc = "loop", !.call = 0]
         ELSE [e EXCEPT !.pc = "catch", !.call = 0,
                        !.error = [by |-> "queryInTransaction", res |-> outcome.res]]
    [] e.pc = "commit" ->
         IF outcome.res = "ok"
         THEN [e EXCEPT !.pc = "done", !.call = 0]
         ELSE [e EXCEPT !.pc = "catch", !.call = 0,
                        !.error = [by |-> "commitTransaction", res |-> outcome.res]]
    [] e.pc = "rollback" ->
         IF outcome.res = "ok"
         THEN [e EXCEPT !.pc = "done", !.call = 0, !.raised = e.error]
         ELSE [e EXCEPT !.pc = "done", !.call = 0,
                        !.raised = [by |-> "rollbackTransaction", res |-> outcome.res]]

\* executeTransaction follows the step just taken by the manager: the call it
\* makes starts, or the call it awaits returns or throws
ExecStep ==
  exec' =
    IF exec.pc \in {"off", "done"} THEN exec
    ELSE IF Starting # 0
    THEN LET waiting == [exec EXCEPT !.pc = ExecCalls, !.call = Starting,
                                     !.left = IF ExecCalls = "statement"
                                              THEN @ - 1 ELSE @]
         IN  IF calls'[Starting].pc = "done" THEN ExecAfter(waiting, last')
             ELSE waiting
    ELSE IF /\ exec.call # 0
            /\ calls[exec.call].pc # "done"
            /\ calls'[exec.call].pc = "done"
    THEN ExecAfter(exec, last')
    ELSE exec

\* query-api.ts line 105: ParameterValidator.validateSql(query.sql) throws
ExecValidateFails ==
  /\ exec.pc = "loop"
  /\ exec.left > 0
  /\ exec' = [exec EXCEPT !.pc = "catch", !.left = @ - 1,
                          !.error = [by |-> "validateSql", res |-> "invalid"]]
  /\ UNCHANGED managerVars
  /\ UNCHANGED outsideManager

\* index.ts lines 1650-1659: `if (server) await server.cleanup(); process.exit(0)`.
\* A handler whose cleanup() has returned exits the process; one whose
\* cleanup() has thrown leaves a rejected promise nobody handles, on which the
\* runtime either terminates the process or goes on.  `signal` says that the
\* call starting in this step is made by a handler.
ProcessStep(signal) ==
  LET running == handlers \cup (IF signal THEN {Starting} ELSE {})
      over == {h \in running : calls'[h].pc = "done"}
  IN  /\ ~exited
      /\ handlers' = running \ over
      /\ exited' \in IF over = {} THEN {FALSE}
                     ELSE IF last'.res = "ok" THEN {TRUE}
                     ELSE BOOLEAN
      /\ SessionStep
      /\ ExecStep
      /\ UNCHANGED workload
      /\ UNCHANGED outsideManager

----------------------------------------------------------------------------
\* RateLimiter (common/security.ts lines 19-142)

\* Bounds: the clock, the configured window and ceiling, the calls in one window
MaxTime == 5
MaxWindowMs == 2
MaxRequests == 2
MaxChecks == 4

Identifiers == {"a", "b"}

NoEntry == [count |-> 0, resetTime |-> 0, lastRequest |-> 0]

NoWindow == [open |-> FALSE, resetTime |-> 0, calls |-> 0, count |-> 0]

NoCheck == [identifier |-> "none", result |-> FALSE]

\* lines 19-31: the constructor, with the configuration it reads
RateLimiterConstructed(maxRequests, windowMs) ==
  /\ rateLimiting = [maxRequests |-> maxRequests, windowMs |-> windowMs]
  /\ now = 0
  /\ requests = [identifier \in Identifiers |-> NoEntry]
  /\ windows = [identifier \in Identifiers |-> NoWindow]
  /\ admitted = NoCheck
  /\ admittedAt = [identifier \in Identifiers |-> [t \in 0..MaxTime |-> 0]]

\* this.requests.get(identifier) is undefined
Absent(identifier) == requests[identifier] = NoEntry

\* lines 45-54: `!entry || now > entry.resetTime`
NewWindow(identifier) == Absent(identifier) \/ now > requests[identifier].resetTime

\* the window of the identifier, by the clock alone: over once its reset time has passed
WindowOver(identifier) ==
  ~windows[identifier].open \/ now > windows[identifier].resetTime

\* lines 36-72: checkLimit(identifier)
checkLimit(identifier) ==
  /\ WindowOver(identifier) \/ windows[identifier].calls < MaxChecks
  /\ IF NewWindow(identifier)
     THEN /\ requests' = [requests EXCEPT ![identifier] =
                             [count |-> 1,
                              resetTime |-> now + rateLimiting.windowMs,
                              lastRequest |-> now]]
          /\ admitted' = [identifier |-> identifier, result |-> TRUE]
     ELSE IF requests[identifier].count >= rateLimiting.maxRequests
     THEN /\ requests' = [requests EXCEPT ![identifier].lastRequest = now]
          /\ admitted' = [identifier |-> identifier, result |-> FALSE]
     ELSE /\ requests' = [requests EXCEPT ![identifier].lastRequest = now,
                                          ![identifier].count = @ + 1]
          /\ admitted' = [identifier |-> identifier, result |-> TRUE]
  /\ windows' = [windows EXCEPT ![identifier] =
                   IF WindowOver(identifier)
                   THEN [open |-> TRUE, resetTime |-> now + rateLimiting.windowMs,
                         calls |-> 1, count |-> 1]
                   ELSE [@ EXCEPT !.calls = @ + 1,
                                  !.count = IF @ >= rateLimiting.maxRequests
                                            THEN @ ELSE @ + 1]]
  /\ admittedAt' = IF admitted'.result
                   THEN [admittedAt EXCEPT ![identifier][now] = @ + 1]
                   ELSE admittedAt
  /\ UNCHANGED <<rateLimiting, now>>
  /\ UNCHANGED outsideRateLimiter

\* Math.max(0, n)
AtLeastZero(n) == IF n < 0 THEN 0 ELSE n

\* lines 77-98: getStatus(identifier), a read of the entry
getStatus(identifier) ==
  IF NewWindow(identifier)
  THEN [remaining |-> rateLimiting.maxRequests,
        resetTime |-> now + rateLimiting.windowMs,
        totalRequests |-> 0]
  ELSE [remaining |-> AtLeastZero(rateLimiting.maxRequests - requests[identifier].count),
        resetTime |-> requests[identifier].resetTime,
        totalRequests |-> requests[identifier].count]

\* a faulty variant of RateLimiterCleanup: the sweep also removes the windows
\* whose reset time is the present moment
RateLimiterCleanupAtReset ==
  /\ requests' = [identifier \in Identifiers |->
                    IF ~Absent(identifier) /\ now >= requests[identifier].resetTime
                    THEN NoEntry ELSE requests[identifier]]
  /\ requests' # requests
  /\ UNCHANGED <<rateLimiting, now, windows, admitted, admittedAt>>
  /\ UNCHANGED outsideRateLimiter

\* lines 27-30 and 118-133: the sweep that setInterval runs
RateLimiterCleanup ==
  /\ requests' = [identifier \in Identifiers |->
                    IF ~Absent(identifier) /\ now > requests[identifier].resetTime
                    THEN NoEntry ELSE requests[identifier]]
  /\ requests' # requests
  /\ UNCHANGED <<rateLimiting, now, windows, admitted, admittedAt>>
  /\ UNCHANGED outsideRateLimiter

\* lines 103-106: reset(identifier)
reset(identifier) ==
  /\ ~Absent(identifier) \/ windows[identifier].open
  /\ requests' = [requests EXCEPT ![identifier] = NoEntry]
  /\ windows' = [windows EXCEPT ![identifier] = NoWindow]
  /\ admittedAt' = [admittedAt EXCEPT ![identifier] = [t \in 0..MaxTime |-> 0]]
  /\ admitted' = NoCheck
  /\ UNCHANGED <<rateLimiting, now>>
  /\ UNCHANGED outsideRateLimiter

\* Date.now() moves on
Tick ==
  /\ now < MaxTime
  /\ now' = now + 1
  /\ UNCHANGED <<rateLimiting, requests, windows, admitted, admittedAt>>
  /\ UNCHANGED outsideRateLimiter

----------------------------------------------------------------------------
\* Errors and retry (common/errors.ts)

\* Bounds: the attempts of one wrapped call, the values of Math.random()
MaxAttempts == 4
RandomSteps == 5

\* line 157: the cap of the delay, in ms
MaxRetryDelay == 30000

\* lines 5-31
ErrorCode ==
  {"CONNECTION_FAILED", "QUERY_FAILED", "TRANSACTION_FAILED", "TIMEOUT",
   "INVALID_PARAMETER", "MISSING_PARAMETER", "INVALID_SQL",
   "PERMISSION_DENIED", "READ_ONLY_MODE", "SCHEMA_ACCESS_DENIED",
   "TABLE_NOT_FOUND", "SCHEMA_NOT_FOUND", "INDEX_NOT_FOUND",
   "POOL_EXHAUSTED", "RATE_LIMIT_EXCEEDED", "INTERNAL_ERROR"}

\* lines 33-42: new DatabaseError(code, message)
DatabaseError(code, message) ==
  [class |-> "DatabaseError", code |-> code, message |-> message]

\* an error that is no DatabaseError: its `code` property, "" when it has none
Error(code, message) == [class |-> "Error", code |-> code, message |-> message]

\* the `code` of the errors that pg and node raise: SQLSTATEs and errnos
DriverCodes ==
  {"28P01", "28000", "3D000", "42P01", "42601", "57014", "08006", "23505",
   "ECONNREFUSED"}

\* the errors without a `code`: of pg-pool and of the connection manager
PlainMessages ==
  {"timeout exceeded when trying to connect",
   "Called end on pool more than once",
   "Transaction not found",
   "Write operations are not allowed in read-only mode",
   "unexpected"}

Errors ==
  {DatabaseError(code, "") : code \in ErrorCode}
  \cup {Error(code, "driver") : code \in DriverCodes}
  \cup {Error("", message) : message \in PlainMessages}

\* connection-manager.ts lines 205, 238, 261: new Error(`Transaction ... not found`)
NotFoundError == Error("", "Transaction not found")

\* what the loop holds before the first failure: `let lastError: any`
Undefined == [class |-> "undefined", code |-> "", message |-> ""]

BaseDelays == {100, 1000}

\* lines 97-99
isDatabaseError(error) == error.class = "DatabaseError"

\* lines 106-110
retryableCodes == {"CONNECTION_FAILED", "TIMEOUT", "POOL_EXHAUSTED"}

isRetryableErrorAlsoQueryFailed(error) ==
  isDatabaseError(error) /\ error.code \in retryableCodes \cup {"QUERY_FAILED"}

\* lines 101-113
isRetryableError(error) ==
  IF ~isDatabaseError(error) THEN FALSE
  ELSE error.code \in retryableCodes

\* lines 115-151
sanitizeError(error) ==
  IF isDatabaseError(error) THEN error
  ELSE IF error.code # ""
  THEN CASE error.code \in {"28P01", "28000"} ->
              DatabaseError("PERMISSION_DENIED", "Authentication failed")
         [] error.code = "3D000" ->
              DatabaseError("SCHEMA_NOT_FOUND", "Database not found")
         [] error.code = "42P01" ->
              DatabaseError("TABLE_NOT_FOUND", "Table not found")
         [] error.code = "42601" ->
              DatabaseError("INVALID_SQL", "SQL syntax error")
         [] error.code = "57014" ->
              DatabaseError("TIMEOUT", "Query was canceled")
         [] OTHER ->
              DatabaseError("QUERY_FAILED", error.message)
  ELSE DatabaseError("INTERNAL_ERROR", error.message)

getRetryDelayUncapped(attempt, baseDelay, random) ==
  LET delay == baseDelay * 2 ^ (attempt - 1)
  IN  delay + (random * delay) \div (10 * RandomSteps)

\* lines 153-158, Math.random() being random / RandomSteps
getRetryDelay(attempt, baseDelay, random) ==
  LET delay == baseDelay * 2 ^ (attempt - 1)
      jitter == (random * delay) \div (10 * RandomSteps)
  IN  MinOf({delay + jitter, MaxRetryDelay})

NotApplied ==
  [fn |-> "none", error |-> Undefined, attempt |-> 0, baseDelay |-> 0,
   random |-> 0, retryable |-> FALSE, delay |-> 0]

\* lines 164-176: the wrapper made by withRetry(maxAttempts, baseDelay), not yet called
RetryConstructed(maxAttempts, baseDelay) ==
  /\ retry = [maxAttempts |-> maxAttempts, baseDelay |-> baseDelay,
              pc |-> "idle", attempt |-> 0, lastError |-> Undefined,
              thrown |-> Undefined, delay |-> 0, invocations |-> 0, waits |-> 0]
  /\ applied = NotApplied

\* lines 101-113: a caller asks whether an error is retryable
IsRetryableError(error) ==
  /\ retry.pc = "idle"
  /\ applied' = [NotApplied EXCEPT !.fn = "isRetryableError", !.error = error,
                                   !.retryable = isRetryableError(error)]
  /\ UNCHANGED retry
  /\ UNCHANGED outsideRetry

\* lines 153-158: a caller asks for the delay after an attempt
GetRetryDelay(attempt, baseDelay, random) ==
  /\ retry.pc = "idle"
  /\ applied' = [NotApplied EXCEPT !.fn = "getRetryDelay", !.attempt = attempt,
                                   !.baseDelay = baseDelay, !.random = random,
                                   !.delay = getRetryDelay(attempt, baseDelay, random)]
  /\ UNCHANGED retry
  /\ UNCHANGED outsideRetry

\* lines 175-180: the wrapped method is called; the loop makes its first attempt
RetryCall ==
  /\ retry.pc = "idle"
  /\ retry' = IF 1 <= retry.maxAttempts
              THEN [retry EXCEPT !.pc = "calling", !.attempt = 1, !.invocations = 1]
              ELSE [retry EXCEPT !.pc = "thrown", !.attempt = 1]
  /\ applied' = NotApplied
  /\ UNCHANGED outsideRetry

\* line 180: the original method returns
OperationReturns ==
  /\ retry.pc = "calling"
  /\ retry' = [retry EXCEPT !.pc = "returned"]
  /\ UNCHANGED applied
  /\ UNCHANGED outsideRetry

OperationThrowsAlwaysWaits(error, random) ==
  /\ retry.pc = "calling"
  /\ retry' = IF ~isRetryableError(sanitizeError(error))
              THEN [retry EXCEPT !.pc = "thrown", !.thrown = error,
                                 !.lastError = sanitizeError(error)]
              ELSE [retry EXCEPT !.pc = "waiting", !.thrown = error,
                                 !.lastError = sanitizeError(error),
                                 !.waits = @ + 1]
  /\ UNCHANGED applied
  /\ UNCHANGED outsideRetry

\* lines 181-190: the original method throws
OperationThrows(error, random) ==
  LET lastError == sanitizeError(error) IN
  /\ retry.pc = "calling"
  /\ retry' = IF retry.attempt = retry.maxAttempts \/ ~isRetryableError(lastError)
              THEN [retry EXCEPT !.pc = "thrown", !.thrown = error,
                                 !.lastError = lastError]
              ELSE [retry EXCEPT !.pc = "waiting", !.thrown = error,
                                 !.lastError = lastError,
                                 !.delay = getRetryDelay(retry.attempt,
                                                         retry.baseDelay, random),
                                 !.waits = @ + 1]
  /\ UNCHANGED applied
  /\ UNCHANGED outsideRetry

\* lines 189 and 178-180: the timer fires and the loop makes the next attempt
RetryTimer ==
  /\ retry.pc = "waiting"
  /\ retry' = IF retry.attempt + 1 <= retry.maxAttempts
              THEN [retry EXCEPT !.pc = "calling", !.attempt = @ + 1,
                                 !.invocations = @ + 1]
              ELSE [retry EXCEPT !.pc = "thrown", !.attempt = @ + 1]
  /\ UNCHANGED applied
  /\ UNCHANGED outsideRetry

----------------------------------------------------------------------------
\* QueryResultCache (common/cache.ts, kept as unnamed/part_001): cache keys.
\* A string is a sequence of characters.

Upper ==
  <<"A", "B", "C", "D", "E", "F", "G", "H", "I", "J", "K", "L", "M",
    "N", "O", "P", "Q", "R", "S", "T", "U", "V", "W", "X", "Y", "Z">>

Lower ==
  <<"a", "b", "c", "d", "e", "f", "g", "h", "i", "j", "k", "l", "m",
    "n", "o", "p", "q", "r", "s", "t", "u", "v", "w", "x", "y", "z">>

Digits == <<"0", "1", "2", "3", "4", "5", "6", "7", "8", "9">>

IndexOf(ch, chars) == CHOOSE i \in 1..Len(chars) : chars[i] = ch

Among(ch, chars) == \E i \in 1..Len(chars) : chars[i] = ch

\* String.prototype.charCodeAt, for the characters of the model
charCodeAt(ch) ==
  IF Among(ch, Upper) THEN 64 + IndexOf(ch, Upper)
  ELSE IF Among(ch, Lower) THEN 96 + IndexOf(ch, Lower)
  ELSE IF Among(ch, Digits) THEN 47 + IndexOf(ch, Digits)
  ELSE CASE ch = " " -> 32
         [] ch = "\"" -> 34
         [] ch = "," -> 44
         [] ch = "[" -> 91
         [] ch = "]" -> 93
         [] ch = "_" -> 95

lowerChar(ch) == IF Among(ch, Upper) THEN Lower[IndexOf(ch, Upper)] ELSE ch

upperChar(ch) == IF Among(ch, Lower) THEN Upper[IndexOf(ch, Lower)] ELSE ch

toLowerCaseChars(str) == [i \in 1..Len(str) |-> lowerChar(str[i])]

toUpperCaseChars(str) == [i \in 1..Len(str) |-> upperChar(str[i])]

\* line 53: replace(/\s+/g, ' ')
RECURSIVE collapseSpace(_)
collapseSpace(str) ==
  IF Len(str) < 2 THEN str
  ELSE IF str[1] = " " /\ str[2] = " " THEN collapseSpace(Tail(str))
  ELSE <<str[1]>> \o collapseSpace(Tail(str))

\* String.prototype.trim
RECURSIVE trimChars(_)
trimChars(str) ==
  IF str = <<>> THEN str
  ELSE IF str[1] = " " THEN trimChars(Tail(str))
  ELSE IF str[Len(str)] = " " THEN trimChars(SubSeq(str, 1, Len(str) - 1))
  ELSE str

startsWith(str, prefix) ==
  Len(prefix) <= Len(str) /\ SubSeq(str, 1, Len(prefix)) = prefix

\* lines 78-81
nonCacheableOperations ==
  {<<"I", "N", "S", "E", "R", "T">>,
   <<"U", "P", "D", "A", "T", "E">>,
   <<"D", "E", "L", "E", "T", "E">>,
   <<"C", "R", "E", "A", "T", "E">>,
   <<"D", "R", "O", "P">>,
   <<"A", "L", "T", "E", "R">>,
   <<"T", "R", "U", "N", "C", "A", "T", "E">>,
   <<"G", "R", "A", "N", "T">>,
   <<"R", "E", "V", "O", "K", "E">>,
   <<"C", "O", "P", "Y">>,
   <<"V", "A", "C", "U", "U", "M">>,
   <<"A", "N", "A", "L", "Y", "Z", "E">>}

\* lines 77-85
shouldCache(sql) ==
  LET normalizedSql == toUpperCaseChars(trimChars(sql))
  IN  ~\E op \in nonCacheableOperations : startsWith(normalizedSql, op)

\* JSON.stringify of an array of strings
RECURSIVE stringifyItems(_)
stringifyItems(values) ==
  IF values = <<>> THEN <<>>
  ELSE <<"\"">> \o Head(values) \o <<"\"">>
       \o (IF Len(values) > 1 THEN <<",">> ELSE <<>>)
       \o stringifyItems(Tail(values))

stringify(values) == <<"[">> \o stringifyItems(values) \o <<"]">>

\* an optional argument: not given, or an array of strings
NotGiven == [given |-> FALSE, values |-> <<>>]

Given(values) == [given |-> TRUE, values |-> values]

\* a 32-bit integer as two halves of 16 bits, two's complement
Half == 65536

\* lines 68-69: hash = ((hash << 5) - hash) + char; hash = hash & hash
hashStep(hash, char) ==
  LET lo == 31 * hash.lo + char
      hi == 31 * hash.hi + lo \div Half
  IN  [hi |-> hi % Half, lo |-> lo % Half]

RECURSIVE hashFrom(_, _)
hashFrom(hash, str) ==
  IF str = <<>> THEN hash
  ELSE hashFrom(hashStep(hash, charCodeAt(Head(str))), Tail(str))

\* line 71: Math.abs(hash)
abs(hash) ==
  IF hash.hi < Half \div 2 THEN hash
  ELSE [hi |-> (Half - 1 - hash.hi + (IF hash.lo = 0 THEN 1 ELSE 0)) % Half,
        lo |-> (Half - hash.lo) % Half]

\* line 71: toString(36)
RECURSIVE digits36(_)
digits36(n) ==
  IF n.hi = 0 /\ n.lo = 0 THEN <<>>
  ELSE LET rest == (n.hi % 36) * Half + n.lo
       IN  Append(digits36([hi |-> n.hi \div 36, lo |-> rest \div 36]),
                  (Digits \o Lower)[(rest % 36) + 1])

toString36(n) == IF n.hi = 0 /\ n.lo = 0 THEN <<"0">> ELSE digits36(n)

\* lines 64-72
simpleHash(str) == toString36(abs(hashFrom([hi |-> 0, lo |-> 0], str)))

\* lines 52-59
generateKey(sql, parameters, options) ==
  LET normalizedSql == toLowerCaseChars(trimChars(collapseSpace(sql)))
      paramString == IF parameters.given THEN stringify(parameters.values) ELSE <<>>
      optionsString == IF options.given THEN stringify(options.values) ELSE <<>>
  IN  simpleHash(normalizedSql \o paramString \o optionsString)

----------------------------------------------------------------------------
\* QueryResultCache: the cache and its operations

\* Bounds: the calls made on the cache, its clock, the configured size and TTL
MaxCacheOps == 4
MaxCacheTime == 3
MaxKeys == 2
MaxTtl == 1

\* the (sql, parameters, options) of the callers
CacheRequests ==
  {[sql |-> <<"s">>, parameters |-> Given(<< <<"A", "a">> >>), options |-> NotGiven],
   [sql |-> <<"s">>, parameters |-> Given(<< <<"B", "B">> >>), options |-> NotGiven],
   [sql |-> <<"t">>, parameters |-> NotGiven, options |-> NotGiven],
   [sql |-> <<"u">>, parameters |-> NotGiven, options |-> NotGiven],
   [sql |-> <<"I", "N", "S", "E", "R", "T">>, parameters |-> NotGiven,
    options |-> NotGiven]}

CacheData == {"x", "y"}

\* schema-api.ts lines 41, 45, 152: SchemaAPIClient calls get(cacheKey) and
\* set(cacheKey, schemas) with cacheKey = `schemas_list_${includeSystem}`
SchemaRequest(includeSystem) ==
  [sql |-> <<"s", "c", "h", "e", "m", "a", "s", "_", "l", "i", "s", "t", "_">>
           \o (IF includeSystem THEN <<"t", "r", "u", "e">>
               ELSE <<"f", "a", "l", "s", "e">>),
   parameters |-> NotGiven, options |-> NotGiven]

Requests == CacheRequests \cup {SchemaRequest(b) : b \in BOOLEAN}

\* lines 95, 118: the key of each request
keyOf ==
  [request \in Requests |->
     generateKey(request.sql, request.parameters, request.options)]

\* lines 91, 114: whether the sql of each request is cacheable
cacheable == [request \in Requests |-> shouldCache(request.sql)]

\* lines 91, 114: the request is served by the cache: the cache is enabled and
\* the sql read-shaped
Cached(request) == cacheConfig.enabled /\ cacheable[request]

\* invalidate(pattern?): no pattern, or the source of a regular expression
\* without special characters
NoPattern == <<>>

Patterns ==
  {keyOf[request] : request \in CacheRequests}
  \cup {<<"Q">>, <<"s", "c", "h", "e", "m", "a", "s", "_", "l", "i", "s", "t">>}

\* lines 146, 149: new RegExp(pattern, 'i').test(key)
test(pattern, key) ==
  \E i \in 1..(Len(key) - Len(pattern) + 1) :
    toLowerCaseChars(SubSeq(key, i, i + Len(pattern) - 1)) = toLowerCaseChars(pattern)

\* the keys of the requests that each pattern matches
matched ==
  [pattern \in Patterns |->
     {keyOf[request] : request \in {r \in Requests : test(pattern, keyOf[r])}}]

NoStored == [present |-> FALSE, data |-> "null"]

NothingReturned == [op |-> "none", data |-> "null", count |-> 0]

\* lines 33-47: the constructor, with the configuration it reads
CacheConstructed(enabled, ttl, maxKeys) ==
  /\ cacheConfig = [enabled |-> enabled, ttl |-> ttl, maxKeys |-> maxKeys]
  /\ cache = <<>>
  /\ cacheStats = [hits |-> 0, misses |-> 0, sets |-> 0, deletes |-> 0]
  /\ cacheNow = 1
  /\ recent = <<>>
  /\ stored = [request \in Requests |-> NoStored]
  /\ returned = NothingReturned

\* LRUCache: the keys held, stale ones included
CacheKeys == {cache[i].key : i \in 1..Len(cache)}

\* LRUCache: the position of a key, 0 when the cache does not hold it
IndexOfKey(key) ==
  IF key \in CacheKeys THEN CHOOSE i \in 1..Len(cache) : cache[i].key = key ELSE 0

\* LRUCache: an entry is stale once its age exceeds the ttl (ttl 0: never)
IsStale(entry) ==
  cacheConfig.ttl # 0 /\ cacheNow - entry.start > cacheConfig.ttl

Without(entries, i) ==
  SubSeq(entries, 1, i - 1) \o SubSeq(entries, i + 1, Len(entries))

RECURSIVE Keep(_, _)
Keep(entries, keys) ==
  IF entries = <<>> THEN <<>>
  ELSE (IF Head(entries).key \in keys THEN <<Head(entries)>> ELSE <<>>)
       \o Keep(Tail(entries), keys)

\* history: the requests whose entry left the cache have nothing stored
Forget(keys) ==
  [request \in Requests |->
     IF keyOf[request] \in keys THEN NoStored ELSE stored[request]]

\* history: the keys held, by their last use (a hit or a write), oldest first
RECURSIVE Unused(_, _)
Unused(keys, gone) ==
  IF keys = <<>> THEN <<>>
  ELSE (IF Head(keys) \in gone THEN <<>> ELSE <<Head(keys)>>)
       \o Unused(Tail(keys), gone)

Used(key, gone) == Append(Unused(recent, gone \cup {key}), key)

\* the calls that count: hits, misses and writes
CacheOps == cacheStats.hits + cacheStats.misses + cacheStats.sets

CacheGetKeepsOrder(request) ==
  LET key == keyOf[request]
      i == IndexOfKey(key)
  IN  /\ CacheOps < MaxCacheOps
      /\ cacheConfig.enabled /\ cacheable[request]
      /\ i # 0 /\ ~IsStale(cache[i])
      /\ cache' = [cache EXCEPT ![i].hits = @ + 1, ![i].start = cacheNow]
      /\ cacheStats' = [cacheStats EXCEPT !.hits = @ + 1]
      /\ recent' = Used(key, {})
      /\ returned' = [op |-> "get", data |-> cache[i].data, count |-> 0]
      /\ UNCHANGED <<stored, cacheConfig, cacheNow>>
      /\ UNCHANGED outsideCache

\* lines 90-108: get(sql, parameters, options), with LRUCache.get
CacheGet(request) ==
  LET key == keyOf[request]
      i == IndexOfKey(key)
  IN  /\ CacheOps < MaxCacheOps
      /\ IF ~cacheConfig.enabled \/ ~cacheable[request]
         THEN /\ returned' = [op |-> "get", data |-> "null", count |-> 0]
              /\ UNCHANGED <<cache, cacheStats, recent, stored>>
         ELSE IF i # 0 /\ ~IsStale(cache[i])
         THEN /\ cache' = Append(Without(cache, i),
                                 [cache[i] EXCEPT !.hits = @ + 1,
                                                  !.start = cacheNow])
              /\ cacheStats' = [cacheStats EXCEPT !.hits = @ + 1]
              /\ recent' = Used(key, {})
              /\ returned' = [op |-> "get", data |-> cache[i].data, count |-> 0]
              /\ UNCHANGED stored
         ELSE /\ cache' = IF i # 0 THEN Without(cache, i) ELSE cache
              /\ cacheStats' = [cacheStats EXCEPT
                                  !.misses = @ + 1,
                                  !.deletes = IF i # 0 THEN @ + 1 ELSE @]
              /\ recent' = Unused(recent, {key})
              /\ stored' = IF i # 0 THEN Forget({key}) ELSE stored
              /\ returned' = [op |-> "get", data |-> "null", count |-> 0]
      /\ UNCHANGED <<cacheConfig, cacheNow>>
      /\ UNCHANGED outsideCache

CacheSetAnySql(request, data) ==
  LET key == keyOf[request]
      i == IndexOfKey(key)
      entry == [key |-> key, data |-> data, timestamp |-> cacheNow, hits |-> 0,
                start |-> cacheNow]
      full == cacheConfig.maxKeys # 0 /\ Len(cache) = cacheConfig.maxKeys
      evicted == IF i = 0 /\ full THEN {Head(cache).key} ELSE {}
  IN  /\ CacheOps < MaxCacheOps
      /\ IF ~cacheConfig.enabled
         THEN /\ returned' = [op |-> "set", data |-> "null", count |-> 0]
              /\ UNCHANGED <<cache, cacheStats, recent, stored>>
         ELSE /\ cache' = IF i # 0 THEN Append(Without(cache, i), entry)
                          ELSE IF full THEN Append(Tail(cache), entry)
                          ELSE Append(cache, entry)
              /\ cacheStats' = [cacheStats EXCEPT
                                  !.sets = @ + 1,
                                  !.deletes = IF i # 0 \/ full THEN @ + 1 ELSE @]
              /\ recent' = Used(key, evicted)
              /\ stored' = [Forget(evicted) EXCEPT
                              ![request] = [present |-> TRUE, data |-> data]]
              /\ returned' = [op |-> "set", data |-> data, count |-> 0]
      /\ UNCHANGED <<cacheConfig, cacheNow>>
      /\ UNCHANGED outsideCache

\* lines 113-132: set(sql, data, parameters, options), with LRUCache.set
CacheSet(request, data) ==
  LET key == keyOf[request]
      i == IndexOfKey(key)
      entry == [key |-> key, data |-> data, timestamp |-> cacheNow, hits |-> 0,
                start |-> cacheNow]
      full == cacheConfig.maxKeys # 0 /\ Len(cache) = cacheConfig.maxKeys
      evicted == IF i = 0 /\ full THEN {Head(cache).key} ELSE {}
  IN  /\ CacheOps < MaxCacheOps
      /\ IF ~cacheConfig.enabled \/ ~cacheable[request]
         THEN /\ returned' = [op |-> "set", data |-> "null", count |-> 0]
              /\ UNCHANGED <<cache, cacheStats, recent, stored>>
         ELSE /\ cache' = IF i # 0 THEN Append(Without(cache, i), entry)
                          ELSE IF full THEN Append(Tail(cache), entry)
                          ELSE Append(cache, entry)
              /\ cacheStats' = [cacheStats EXCEPT
                                  !.sets = @ + 1,
                                  !.deletes = IF i # 0 \/ full THEN @ + 1 ELSE @]
              /\ recent' = Used(key, evicted)
              /\ stored' = [Forget(evicted) EXCEPT
                              ![request] = [present |-> TRUE, data |-> data]]
              /\ returned' = [op |-> "set", data |-> data, count |-> 0]
      /\ UNCHANGED <<cacheConfig, cacheNow>>
      /\ UNCHANGED outsideCache

CacheInvalidateCountsAll(pattern) ==
  LET removed == IF pattern = NoPattern THEN CacheKeys
                 ELSE {cache[i].key : i \in {j \in 1..Len(cache) :
                                               /\ ~IsStale(cache[j])
                                               /\ cache[j].key \in matched[pattern]}}
  IN  /\ cache # <<>>
      /\ cache' = Keep(cache, CacheKeys \ removed)
      /\ cacheStats' = [cacheStats EXCEPT !.deletes = @ + Cardinality(removed)]
      /\ recent' = Unused(recent, removed)
      /\ stored' = Forget(removed)
      /\ returned' = [op |-> "invalidate", data |-> "null", count |-> Len(cache)]
      /\ UNCHANGED <<cacheConfig, cacheNow>>
      /\ UNCHANGED outsideCache

\* lines 137-157: invalidate(pattern), with LRUCache.clear, the iteration of the
\* cache (which passes over stale entries) and LRUCache.delete
CacheInvalidate(pattern) ==
  LET removed == IF pattern = NoPattern THEN CacheKeys
                 ELSE {cache[i].key : i \in {j \in 1..Len(cache) :
                                               /\ ~IsStale(cache[j])
                                               /\ cache[j].key \in matched[pattern]}}
      count == Cardinality(removed)
  IN  /\ cache # <<>>
      /\ cache' = Keep(cache, CacheKeys \ removed)
      /\ cacheStats' = [cacheStats EXCEPT !.deletes = @ + count]
      /\ recent' = Unused(recent, removed)
      /\ stored' = Forget(removed)
      /\ returned' = [op |-> "invalidate", data |-> "null", count |-> count]
      /\ UNCHANGED <<cacheConfig, cacheNow>>
      /\ UNCHANGED outsideCache

\* lines 200-203: cleanup(), with LRUCache.purgeStale
CacheCleanup ==
  LET removed == {cache[i].key : i \in {j \in 1..Len(cache) : IsStale(cache[j])}}
  IN  /\ removed # {}
      /\ cache' = Keep(cache, CacheKeys \ removed)
      /\ cacheStats' = [cacheStats EXCEPT !.deletes = @ + Cardinality(removed)]
      /\ recent' = Unused(recent, removed)
      /\ stored' = Forget(removed)
      /\ returned' = [op |-> "cleanup", data |-> "null", count |-> 0]
      /\ UNCHANGED <<cacheConfig, cacheNow>>
      /\ UNCHANGED outsideCache

\* the clock moves on
CacheTick ==
  /\ cacheNow < MaxCacheTime
  /\ cacheNow' = cacheNow + 1
  /\ UNCHANGED <<cacheConfig, cache, cacheStats, recent, stored, returned>>
  /\ UNCHANGED outsideCache

----------------------------------------------------------------------------
\* SchemaAPIClient (api/domains/schema-api.ts) with a cache: listSchemas,
\* createSchema, dropSchema and renameSchema.  The database is the
\* environment: it holds the schemas, changed by every successful DDL
\* statement, and answers a listing with the schemas it holds then.

\* Bound: the changes made to the schemas of the database
MaxSchemaChanges == 2

\* the schema list of the database after 0, 1, 2, ... changes
SchemaLists == <<"l0", "l1", "l2", "l3">>

SchemaOps == {"createSchema", "dropSchema", "renameSchema"}

\* lines 254, 309, 361: this.cache.invalidate('schemas_list')
SchemaPattern == <<"s", "c", "h", "e", "m", "a", "s", "_", "l", "i", "s", "t">>

NoListing == [pc |-> "idle", includeSystem |-> FALSE, rows |-> "null"]

NoChange == [pc |-> "idle", op |-> "none"]

\* the last return of listSchemas: the list, whether it came from the cache,
\* whether it was cached before the last successful change, and whether it is
\* the list the database held at that moment
NotListed == [data |-> "null", cached |-> FALSE, old |-> FALSE, current |-> FALSE]

\* `old` is history: the listings whose cached list was stored before the last
\* successful change of the schemas
NoSchemaApi ==
  [changes |-> 0, list |-> NoListing, change |-> NoChange, listed |-> NotListed,
   old |-> {}]

\* lines 40-47: listSchemas(includeSystem) up to its first await: a cached
\* list is returned, otherwise the database is queried
ListSchemas(includeSystem) ==
  /\ schemaApi.list.pc = "idle"
  /\ CacheGet(SchemaRequest(includeSystem))
  /\ schemaApi' =
       IF returned'.data # "null"
       THEN [schemaApi EXCEPT
               !.listed = [data |-> returned'.data, cached |-> TRUE,
                           old |-> includeSystem \in schemaApi.old,
                           current |-> returned'.data
                                       = SchemaLists[schemaApi.changes + 1]]]
       ELSE [schemaApi EXCEPT
               !.list = [pc |-> "querying", includeSystem |-> includeSystem,
                         rows |-> "null"]]

\* lines 49-147: the database answers the queries of the listing, or one fails
\* (lines 156-163: the catch throws a DatabaseError)
ListSchemasQuery(ok) ==
  /\ schemaApi.list.pc = "querying"
  /\ schemaApi' =
       IF ok
       THEN [schemaApi EXCEPT !.list.pc = "fetched",
                              !.list.rows = SchemaLists[schemaApi.changes + 1]]
       ELSE [schemaApi EXCEPT !.list = NoListing,
                              !.listed = [NotListed EXCEPT !.data = "error"]]
  /\ UNCHANGED cacheVars
  /\ UNCHANGED outsideCache

\* lines 150-155: the list is cached and returned
ListSchemasAfter ==
  /\ schemaApi.list.pc = "fetched"
  /\ CacheSet(SchemaRequest(schemaApi.list.includeSystem), schemaApi.list.rows)
  /\ schemaApi' =
       [schemaApi EXCEPT
          !.list = NoListing,
          !.listed = [NotListed EXCEPT
                        !.data = schemaApi.list.rows,
                        !.current = schemaApi.list.rows
                                    = SchemaLists[schemaApi.changes + 1]],
          !.old = IF Cached(SchemaRequest(schemaApi.list.includeSystem))
                  THEN @ \ {schemaApi.list.includeSystem} ELSE @]

\* lines 228-251, 283-306, 338-358: createSchema, dropSchema or renameSchema up
\* to the end of its statement, which has changed the schemas (a statement
\* that fails changes nothing and the method throws)
ChangeSchema(op) ==
  /\ schemaApi.change.pc = "idle"
  /\ schemaApi.changes < MaxSchemaChanges
  /\ schemaApi' = [schemaApi EXCEPT !.changes = @ + 1,
                                    !.change = [pc |-> "changed", op |-> op]]
  /\ UNCHANGED cacheVars
  /\ UNCHANGED outsideCache

\* lines 252-255, 307-310, 359-362: after the statement, invalidate('schemas_list')
ChangeSchemaAfter ==
  /\ schemaApi.change.pc = "changed"
  /\ IF cache = <<>>
     THEN UNCHANGED cacheVars /\ UNCHANGED outsideCache
     ELSE CacheInvalidate(SchemaPattern)
  /\ schemaApi' =
       [schemaApi EXCEPT
          !.change = NoChange,
          !.old = {b \in BOOLEAN : keyOf[SchemaRequest(b)] \in CacheKeys'}]

----------------------------------------------------------------------------
\* the state after construction, but for the callers
Constructed ==
  /\ RateLimiterConstructed(MaxRequests, MaxWindowMs)
  /\ RetryConstructed(3, 1000)
  /\ CacheConstructed(TRUE, MaxTtl, MaxKeys)
  /\ schemaApi = NoSchemaApi
  /\ readOnlyMode \in BOOLEAN
  /\ connQueue = [conn \in Conns |-> <<>>]
  /\ activeTransactions = <<>>
  /\ connectionStats = [totalQueries |-> 0, totalErrors |-> 0, totalTransactions |-> 0]
  /\ calls = [c \in CallIds |-> NewCall]
  /\ txState = [t \in TxIds |-> "NONE"]
  /\ last = NoOutcome
  /\ probe = NoProbe
  /\ statementTimeout = [conn \in Conns |-> "server"]
  /\ handlers = {}
  /\ exited = FALSE

\* lines 53-61: new Pool({ max: poolConfig.max, ... })
NewPool(max) ==
  [clients |-> {}, idle |-> <<>>, pending |-> <<>>,
   ending |-> FALSE, ended |-> FALSE, max |-> max]

Init ==
  /\ Constructed
  /\ exec = NoExec
  /\ pool = NewPool(PoolMax)
  /\ workload = [ops |-> MaxOps, inFlight |-> MaxInFlight, timeouts |-> {"default"}]

----------------------------------------------------------------------------
\* query(sql, params, options): lines 104-153

Bump(field) == [connectionStats EXCEPT ![field] = connectionStats[field] + 1]

\* lines 109-121: the read-only check, then `await this.pool.connect()`;
\* a throw lands in the outer catch (totalErrors++, rethrow)
QueryStart(c, sql, timeout) ==
  /\ CanStart(c)
  /\ timeout \in workload.timeouts
  /\ IF readOnlyMode /\ isWriteOperation(sql)
     THEN /\ calls' = [calls EXCEPT ![c] = DoneCall]
          /\ last' = Outcome("query", NoTx, "readonly")
          /\ connectionStats' = Bump("totalErrors")
          /\ pool' = pool
     ELSE IF ConnectRejected
     THEN /\ calls' = [calls EXCEPT ![c] = DoneCall]
          /\ last' = Outcome("query", NoTx, "pool_ended")
          /\ connectionStats' = Bump("totalErrors")
          /\ pool' = pool
     ELSE /\ calls' = [calls EXCEPT ![c] =
                         AfterConnect([NewCall EXCEPT !.op = "query",
                                                      !.flag = Writes(sql),
                                                      !.timeout = timeout])]
          /\ pool' = PoolAfterConnect(c)
          /\ UNCHANGED <<connectionStats, last>>
  /\ UNCHANGED <<readOnlyMode, connQueue, activeTransactions, txState>>
  /\ ProbeStep
  /\ ProcessStep(FALSE)

\* line 125: `await client.query(SET statement_timeout)`
QuerySetTimeout(c) ==
  /\ calls[c].op = "query"
  /\ calls[c].pc = "connected"
  /\ connQueue' = Submit(calls[c].client, c)
  /\ calls' = [calls EXCEPT ![c].pc = "set_wait"]
  /\ UNCHANGED <<readOnlyMode, pool, activeTransactions, connectionStats, txState, last>>
  /\ ProbeStep
  /\ ProcessStep(FALSE)

\* lines 137-152: finally { client.release() }, then on a throw the outer catch
\* a faulty variant of QueryFinally: the finally block of lines 137-139 is
\* missing, the connection stays checked out
QueryFinallyKeepsClient(c, ok, stats) ==
  /\ pool' = pool
  /\ calls' = [calls EXCEPT ![c] = DoneCall]
  /\ last' = Outcome("query", NoTx, IF ok THEN "ok" ELSE "driver")
  /\ connectionStats' =
       IF ok THEN stats ELSE [stats EXCEPT !.totalErrors = stats.totalErrors + 1]

QueryFinally(c, ok, stats) ==
  /\ pool' = PoolAfterRelease(calls[c].client)
  /\ calls' = CallsAfterRelease(calls[c].client, [calls EXCEPT ![c] = DoneCall])
  /\ last' = Outcome("query", NoTx,
                     IF ReleaseThrows(calls[c].client) THEN "release"
                     ELSE IF ok THEN "ok" ELSE "driver")
  /\ connectionStats' =
       IF ok /\ ~ReleaseThrows(calls[c].client) THEN stats
       ELSE [stats EXCEPT !.totalErrors = stats.totalErrors + 1]

\* lines 125-128: the SET has finished; on success the statement is submitted
QueryAfterSet(c, ok) ==
  /\ calls[c].op = "query"
  /\ calls[c].pc = "set_wait"
  /\ Finished(c)
  /\ CanSucceed(c, ok)
  /\ IF ok
     THEN /\ connQueue' = [Finish(c) EXCEPT ![calls[c].client] =
                              Append(Finish(c)[calls[c].client], c)]
          /\ calls' = [calls EXCEPT ![c].pc = "stmt_wait"]
          /\ UNCHANGED <<pool, connectionStats, last>>
     ELSE /\ connQueue' = Finish(c)
          /\ QueryFinally(c, FALSE, connectionStats)
  /\ UNCHANGED <<readOnlyMode, activeTransactions, txState>>
  /\ ProbeStep
  /\ ProcessStep(FALSE)

\* lines 128-152: the statement has finished
QueryAfterStatement(c, ok) ==
  /\ calls[c].op = "query"
  /\ calls[c].pc = "stmt_wait"
  /\ Finished(c)
  /\ CanSucceed(c, ok)
  /\ connQueue' = Finish(c)
  /\ QueryFinally(c, ok, IF ok THEN Bump("totalQueries") ELSE connectionStats)
  /\ UNCHANGED <<readOnlyMode, activeTransactions, txState>>
  /\ ProbeStep
  /\ ProcessStep(FALSE)

----------------------------------------------------------------------------
\* beginTransaction(readOnly): lines 158-193

\* lines 159-160: the id, then `await this.pool.connect()` outside the try
BeginStart(c, readOnly) ==
  /\ CanStart(c)
  /\ IF ConnectRejected
     THEN /\ calls' = [calls EXCEPT ![c] = DoneCall]
          /\ last' = Outcome("beginTransaction", NoTx, "pool_ended")
          /\ pool' = pool
     ELSE /\ calls' = [calls EXCEPT ![c] =
                         AfterConnect([NewCall EXCEPT !.op = "beginTransaction",
                                                      !.tid = NewTransactionId(c),
                                                      !.flag = readOnly])]
          /\ pool' = PoolAfterConnect(c)
          /\ last' = last
  /\ UNCHANGED <<readOnlyMode, connQueue, activeTransactions, connectionStats, txState>>
  /\ ProbeStep
  /\ ProcessStep(FALSE)

\* lines 189-192: catch { client.release(); throw error }
\* a faulty variant of BeginCatch: the release of line 190 is missing
BeginCatchKeepsClient(c, res) ==
  /\ pool' = pool
  /\ calls' = [calls EXCEPT ![c] = DoneCall]
  /\ last' = Outcome("beginTransaction", NoTx, res)
  /\ UNCHANGED <<activeTransactions, connectionStats, txState>>

BeginCatch(c, res) ==
  /\ pool' = PoolAfterRelease(calls[c].client)
  /\ calls' = CallsAfterRelease(calls[c].client, [calls EXCEPT ![c] = DoneCall])
  /\ last' = Outcome("beginTransaction", NoTx,
                     IF ReleaseThrows(calls[c].client) THEN "release" ELSE res)
  /\ UNCHANGED <<activeTransactions, connectionStats, txState>>

\* lines 162-170: BEGIN READ ONLY, or BEGIN unless the server is read-only
BeginDirective(c) ==
  /\ calls[c].op = "beginTransaction"
  /\ calls[c].pc = "connected"
  /\ IF calls[c].flag \/ ~readOnlyMode
     THEN /\ connQueue' = Submit(calls[c].client, c)
          /\ calls' = [calls EXCEPT ![c].pc = "begin_wait"]
          /\ UNCHANGED <<pool, activeTransactions, connectionStats, txState, last>>
     ELSE /\ BeginCatch(c, "readonly")
          /\ connQueue' = connQueue
  /\ UNCHANGED readOnlyMode
  /\ ProbeStep
  /\ ProcessStep(FALSE)

\* lines 172-188: the context is registered and the id returned
BeginRegister(c) ==
  /\ activeTransactions' =
       MapSet(activeTransactions,
              [id |-> calls[c].tid, client |-> calls[c].client, readOnly |-> calls[c].flag])
  /\ connectionStats' = Bump("totalTransactions")
  /\ txState' = [txState EXCEPT ![calls[c].tid] = "ACTIVE"]
  /\ calls' = [calls EXCEPT ![c] = DoneCall]
  /\ last' = Outcome("beginTransaction", calls[c].tid, "ok")
  /\ pool' = pool

\* lines 164-192: the start directive has finished
BeginAfter(c, ok) ==
  /\ calls[c].op = "beginTransaction"
  /\ calls[c].pc = "begin_wait"
  /\ Finished(c)
  /\ CanSucceed(c, ok)
  /\ connQueue' = Finish(c)
  /\ IF ok THEN BeginRegister(c) ELSE BeginCatch(c, "driver")
  /\ UNCHANGED readOnlyMode
  /\ ProbeStep
  /\ ProcessStep(FALSE)

----------------------------------------------------------------------------
\* queryInTransaction(transactionId, sql, params): lines 198-230

\* lines 203-216: lookup, read-only check, `await context.client.query(sql)`
QueryInTransactionStart(c, t, sql) ==
  /\ CanStart(c)
  /\ IF t \notin RegisteredIds
     THEN /\ calls' = [calls EXCEPT ![c] = DoneCall]
          /\ last' = Outcome("queryInTransaction", t, "notfound")
          /\ connQueue' = connQueue
     ELSE IF Context(t).readOnly /\ isWriteOperation(sql)
     THEN /\ calls' = [calls EXCEPT ![c] = DoneCall]
          /\ last' = Outcome("queryInTransaction", t, "readonly")
          /\ connQueue' = connQueue
     ELSE /\ calls' = [calls EXCEPT ![c] =
                         [NewCall EXCEPT !.op = "queryInTransaction", !.pc = "tx_wait",
                                         !.tid = t, !.client = Context(t).client,
                                         !.flag = Writes(sql)]]
          /\ connQueue' = Submit(Context(t).client, c)
          /\ last' = last
  /\ UNCHANGED <<readOnlyMode, pool, activeTransactions, connectionStats, txState>>
  /\ ProbeStep
  /\ ProcessStep(FALSE)

\* a faulty variant of QueryInTransactionAfter: a failed statement closes the
\* transaction, releasing the connection and removing the context
QueryInTransactionAfterAborts(c, ok) ==
  /\ calls[c].op = "queryInTransaction"
  /\ calls[c].pc = "tx_wait"
  /\ Finished(c)
  /\ CanSucceed(c, ok)
  /\ connQueue' = Finish(c)
  /\ IF ok
     THEN /\ calls' = [calls EXCEPT ![c] = DoneCall]
          /\ last' = Outcome("queryInTransaction", calls[c].tid, "ok")
          /\ UNCHANGED <<pool, activeTransactions, txState>>
     ELSE /\ pool' = PoolAfterRelease(calls[c].client)
          /\ calls' = CallsAfterRelease(calls[c].client, [calls EXCEPT ![c] = DoneCall])
          /\ last' = Outcome("queryInTransaction", calls[c].tid, "driver")
          /\ activeTransactions' = MapDelete(activeTransactions, calls[c].tid)
          /\ txState' = txState
  /\ UNCHANGED <<readOnlyMode, connectionStats>>
  /\ ProbeStep
  /\ ProcessStep(FALSE)

\* lines 216-229: the statement has finished; the result or the error goes to the caller
QueryInTransactionAfter(c, ok) ==
  /\ calls[c].op = "queryInTransaction"
  /\ calls[c].pc = "tx_wait"
  /\ Finished(c)
  /\ CanSucceed(c, ok)
  /\ connQueue' = Finish(c)
  /\ calls' = [calls EXCEPT ![c] = DoneCall]
  /\ last' = Outcome("queryInTransaction", calls[c].tid, IF ok THEN "ok" ELSE "driver")
  /\ UNCHANGED <<readOnlyMode, pool, activeTransactions, connectionStats, txState>>
  /\ ProbeStep
  /\ ProcessStep(FALSE)

----------------------------------------------------------------------------
\* commitTransaction(id): lines 235-253; rollbackTransaction(id): lines 258-276

\* lines 236-242 and 259-265: lookup, then `await context.client.query(directive)`
EndStart(c, t, op) ==
  /\ CanStart(c)
  /\ IF t \notin RegisteredIds
     THEN /\ calls' = [calls EXCEPT ![c] = DoneCall]
          /\ last' = Outcome(op, t, "notfound")
          /\ connQueue' = connQueue
     ELSE /\ calls' = [calls EXCEPT ![c] =
                         [NewCall EXCEPT !.op = op, !.pc = "tx_wait", !.tid = t,
                                         !.client = Context(t).client]]
          /\ connQueue' = Submit(Context(t).client, c)
          /\ last' = last
  /\ UNCHANGED <<readOnlyMode, pool, activeTransactions, connectionStats, txState>>
  /\ ProbeStep
  /\ ProcessStep(FALSE)

CommitStart(c, t) == EndStart(c, t, "commitTransaction")

RollbackStart(c, t) == EndStart(c, t, "rollbackTransaction")

\* lines 249-252 and 272-275:
\*   finally { context.client.release(); this.activeTransactions.delete(id) }
\* a throwing release() leaves the finally block before the delete
\* a faulty variant of EndFinally: the delete of lines 251 and 274 is missing
EndFinallyKeepsContext(c, ok, final) ==
  /\ pool' = PoolAfterRelease(calls[c].client)
  /\ IF ReleaseThrows(calls[c].client)
     THEN /\ calls' = [calls EXCEPT ![c] = DoneCall]
          /\ last' = Outcome(calls[c].op, calls[c].tid, "release")
          /\ UNCHANGED <<activeTransactions, txState>>
     ELSE /\ calls' = CallsAfterRelease(calls[c].client, [calls EXCEPT ![c] = DoneCall])
          /\ last' = Outcome(calls[c].op, calls[c].tid, IF ok THEN "ok" ELSE "driver")
          /\ activeTransactions' = activeTransactions
          /\ txState' = IF calls[c].tid \in RegisteredIds
                        THEN [txState EXCEPT ![calls[c].tid] = final]
                        ELSE txState

\* a faulty variant of EndFinally: the release of lines 250 and 273 is missing
EndFinallyKeepsClient(c, ok, final) ==
  /\ pool' = pool
  /\ calls' = [calls EXCEPT ![c] = DoneCall]
  /\ last' = Outcome(calls[c].op, calls[c].tid, IF ok THEN "ok" ELSE "driver")
  /\ activeTransactions' = MapDelete(activeTransactions, calls[c].tid)
  /\ txState' = IF calls[c].tid \in RegisteredIds
                THEN [txState EXCEPT ![calls[c].tid] = final]
                ELSE txState

EndFinally(c, ok, final) ==
  /\ pool' = PoolAfterRelease(calls[c].client)
  /\ IF ReleaseThrows(calls[c].client)
     THEN /\ calls' = [calls EXCEPT ![c] = DoneCall]
          /\ last' = Outcome(calls[c].op, calls[c].tid, "release")
          /\ UNCHANGED <<activeTransactions, txState>>
     ELSE /\ calls' = CallsAfterRelease(calls[c].client, [calls EXCEPT ![c] = DoneCall])
          /\ last' = Outcome(calls[c].op, calls[c].tid, IF ok THEN "ok" ELSE "driver")
          /\ activeTransactions' = MapDelete(activeTransactions, calls[c].tid)
          /\ txState' = IF calls[c].tid \in RegisteredIds
                        THEN [txState EXCEPT ![calls[c].tid] = final]
                        ELSE txState

\* lines 242-252: the COMMIT has finished
CommitAfter(c, ok) ==
  /\ calls[c].op = "commitTransaction"
  /\ calls[c].pc = "tx_wait"
  /\ Finished(c)
  /\ CanSucceed(c, ok)
  /\ connQueue' = Finish(c)
  /\ EndFinally(c, ok, "COMMITTED")
  /\ UNCHANGED <<readOnlyMode, connectionStats>>
  /\ ProbeStep
  /\ ProcessStep(FALSE)

\* lines 265-275: the ROLLBACK has finished
RollbackAfter(c, ok) ==
  /\ calls[c].op = "rollbackTransaction"
  /\ calls[c].pc = "tx_wait"
  /\ Finished(c)
  /\ CanSucceed(c, ok)
  /\ connQueue' = Finish(c)
  /\ EndFinally(c, ok, "ROLLED_BACK")
  /\ UNCHANGED <<readOnlyMode, connectionStats>>
  /\ ProbeStep
  /\ ProcessStep(FALSE)

----------------------------------------------------------------------------
\* cleanup(): lines 321-338

\* the entries the Map iterator of line 323 has not passed: those not visited
Unvisited(m, visited) == SelectSeq(m, LAMBDA ctx : ctx.id \notin visited)

\* lines 333-336: the registry is cleared and `await this.pool.end()` is issued
\* on the pool p and the calls cs the step has produced so far
CleanupClear(c, visited, two, p, cs) ==
  /\ activeTransactions' = <<>>
  /\ txState' = [t \in TxIds |->
                   IF t \in RegisteredIds THEN "ROLLED_BACK" ELSE txState[t]]
  /\ IF p.ending
     THEN /\ calls' = [cs EXCEPT ![c] = DoneCall]
          /\ last' = Outcome("cleanup", NoTx, "end_twice")
          /\ pool' = p
     ELSE /\ calls' = [cs EXCEPT ![c] =
                         [NewCall EXCEPT !.op = "cleanup", !.pc = "end_wait",
                                         !.flag = two,
                                         !.visited = visited]]
          /\ last' = last
          /\ pool' = PoolAfterEnd(p)

\* lines 323-336 from the top of the loop: the next entry's ROLLBACK is
\* submitted, or the loop is over.  The record's flag remembers whether the
\* cleanup began with exactly two transactions open and no call in flight.
CleanupLoop(c, visited, two, p, cs) ==
  IF Unvisited(activeTransactions, visited) # <<>>
  THEN LET ctx == Head(Unvisited(activeTransactions, visited)) IN
       /\ calls' = [cs EXCEPT ![c] =
                      [NewCall EXCEPT !.op = "cleanup", !.pc = "cleanup_wait",
                                      !.tid = ctx.id, !.client = ctx.client,
                                      !.flag = two,
                                      !.visited = visited \cup {ctx.id}]]
       /\ pool' = p
       /\ UNCHANGED <<activeTransactions, txState, last>>
  ELSE CleanupClear(c, visited, two, p, cs)

\* the ROLLBACK submitted by the step, if any
CleanupSubmit(c, visited, q) ==
  IF Unvisited(activeTransactions, visited) # <<>>
  THEN [q EXCEPT ![Head(Unvisited(activeTransactions, visited)).client] =
                    Append(@, c)]
  ELSE q

\* lines 321-336 up to the first await
Cleanup(c) ==
  /\ CanStart(c)
  /\ CleanupLoop(c, {}, Len(activeTransactions) = 2 /\ InFlight = {}, pool, calls)
  /\ connQueue' = CleanupSubmit(c, {}, connQueue)
  /\ UNCHANGED <<readOnlyMode, connectionStats>>
  /\ ProbeStep

\* cleanup() called by a caller that holds the manager
CleanupStart(c) == Cleanup(c) /\ ProcessStep(FALSE)

\* index.ts lines 1650-1659: SIGINT or SIGTERM arrives, its handler calls cleanup()
SignalHandler(c) == Cleanup(c) /\ ProcessStep(TRUE)

\* lines 325-330: the ROLLBACK has finished: on success the connection is
\* released; a throw (of the ROLLBACK or of release()) is logged; then the loop goes on
CleanupAfterRollback(c, ok) ==
  /\ calls[c].op = "cleanup"
  /\ calls[c].pc = "cleanup_wait"
  /\ Finished(c)
  /\ CanSucceed(c, ok)
  /\ connQueue' = CleanupSubmit(c, calls[c].visited, Finish(c))
  /\ IF ok
     THEN CleanupLoop(c, calls[c].visited, calls[c].flag,
                      PoolAfterRelease(calls[c].client),
                      CallsAfterRelease(calls[c].client, calls))
     ELSE CleanupLoop(c, calls[c].visited, calls[c].flag, pool, calls)
  /\ UNCHANGED <<readOnlyMode, connectionStats>>
  /\ ProbeStep
  /\ ProcessStep(FALSE)

\* a faulty variant of CleanupEnd: cleanup() returns without awaiting pool.end()
CleanupEndWithoutAwait(c) ==
  /\ calls[c].op = "cleanup"
  /\ calls[c].pc = "end_wait"
  /\ calls' = [calls EXCEPT ![c] = DoneCall]
  /\ last' = Outcome("cleanup", NoTx, "ok")
  /\ UNCHANGED <<readOnlyMode, pool, connQueue, activeTransactions, connectionStats,
                 txState>>
  /\ ProbeStep
  /\ ProcessStep(FALSE)

\* lines 336-338: `await this.pool.end()` resolves once no connection is left
CleanupEnd(c) ==
  /\ calls[c].op = "cleanup"
  /\ calls[c].pc = "end_wait"
  /\ pool.ended
  /\ calls' = [calls EXCEPT ![c] = DoneCall]
  /\ last' = Outcome("cleanup", NoTx, "ok")
  /\ UNCHANGED <<readOnlyMode, pool, connQueue, activeTransactions, connectionStats,
                 txState>>
  /\ ProbeStep
  /\ ProcessStep(FALSE)

----------------------------------------------------------------------------
\* The pool's idle timer (idleTimeoutMillis, line 57): an idle connection is closed

IdleTimeout(conn) ==
  /\ ~pool.ending
  /\ conn \in SeqToSet(pool.idle)
  /\ pool' = [pool EXCEPT !.clients = pool.clients \ {conn},
                          !.idle = SelectSeq(pool.idle, LAMBDA x : x # conn)]
  /\ UNCHANGED <<readOnlyMode, connQueue, activeTransactions, connectionStats,
                 calls, txState, last>>
  /\ ProbeStep
  /\ ProcessStep(FALSE)

----------------------------------------------------------------------------
\* the ids a caller can name: the tokens handed out so far, registered or not
Tokens(c) == {t \in TxIds : t < c}

Next ==
  \/ \E c \in CallIds, sql \in Statements, timeout \in Timeouts :
       QueryStart(c, sql, timeout)
  \/ \E c \in CallIds : QuerySetTimeout(c)
  \/ \E c \in CallIds, ok \in BOOLEAN : QueryAfterSet(c, ok)
  \/ \E c \in CallIds, ok \in BOOLEAN : QueryAfterStatement(c, ok)
  \/ \E c \in CallIds, readOnly \in BOOLEAN : BeginStart(c, readOnly)
  \/ \E c \in CallIds : BeginDirective(c)
  \/ \E c \in CallIds, ok \in BOOLEAN : BeginAfter(c, ok)
  \/ \E c \in CallIds, sql \in Statements : \E t \in Tokens(c) :
       QueryInTransactionStart(c, t, sql)
  \/ \E c \in CallIds, ok \in BOOLEAN : QueryInTransactionAfter(c, ok)
  \/ \E c \in CallIds : \E t \in Tokens(c) : CommitStart(c, t)
  \/ \E c \in CallIds, ok \in BOOLEAN : CommitAfter(c, ok)
  \/ \E c \in CallIds : \E t \in Tokens(c) : RollbackStart(c, t)
  \/ \E c \in CallIds, ok \in BOOLEAN : RollbackAfter(c, ok)
  \/ \E c \in CallIds : CleanupStart(c)
  \/ \E c \in CallIds, ok \in BOOLEAN : CleanupAfterRollback(c, ok)
  \/ \E c \in CallIds : CleanupEnd(c)
  \/ \E conn \in Conns : IdleTimeout(conn)


Spec == Init /\ [][Next]_vars

----------------------------------------------------------------------------
\* The contention workload: the same calls on a pool of ContentionMax
\* connections, more of them at a time, with and without a per-call timeout

InitContention ==
  /\ Constructed
  /\ exec = NoExec
  /\ pool = NewPool(ContentionMax)
  /\ workload = [ops |-> MaxOps, inFlight |-> ContentionInFlight, timeouts |-> Timeouts]

SpecContention == InitContention /\ [][Next]_vars

\* The driver answers every statement it was given, and a call that can go on
\* does; callers are free never to make another call.
Progress ==
  \/ \E c \in CallIds : QuerySetTimeout(c)
  \/ \E c \in CallIds, ok \in BOOLEAN : QueryAfterSet(c, ok)
  \/ \E c \in CallIds, ok \in BOOLEAN : QueryAfterStatement(c, ok)
  \/ \E c \in CallIds : BeginDirective(c)
  \/ \E c \in CallIds, ok \in BOOLEAN : BeginAfter(c, ok)
  \/ \E c \in CallIds, ok \in BOOLEAN : QueryInTransactionAfter(c, ok)
  \/ \E c \in CallIds, ok \in BOOLEAN : CommitAfter(c, ok)
  \/ \E c \in CallIds, ok \in BOOLEAN : RollbackAfter(c, ok)
  \/ \E c \in CallIds, ok \in BOOLEAN : CleanupAfterRollback(c, ok)
  \/ \E c \in CallIds : CleanupEnd(c)

FairContention == SpecContention /\ WF_vars(Progress)

----------------------------------------------------------------------------
\* The shutdown workload: read-write transactions, cleanup() and signals

InitShutdown ==
  /\ Constructed
  /\ exec = NoExec
  /\ readOnlyMode = FALSE
  /\ pool = NewPool(PoolMax)
  /\ workload = [ops |-> ShutdownOps, inFlight |-> ShutdownInFlight, timeouts |-> {}]

NextShutdown ==
  \/ \E c \in CallIds : BeginStart(c, FALSE)
  \/ \E c \in CallIds : BeginDirective(c)
  \/ \E c \in CallIds, ok \in BOOLEAN : BeginAfter(c, ok)
  \/ \E c \in CallIds : \E t \in Tokens(c) : CommitStart(c, t)
  \/ \E c \in CallIds, ok \in BOOLEAN : CommitAfter(c, ok)
  \/ \E c \in CallIds : \E t \in Tokens(c) : RollbackStart(c, t)
  \/ \E c \in CallIds, ok \in BOOLEAN : RollbackAfter(c, ok)
  \/ \E c \in CallIds : CleanupStart(c)
  \/ \E c \in CallIds : SignalHandler(c)
  \/ \E c \in CallIds, ok \in BOOLEAN : CleanupAfterRollback(c, ok)
  \/ \E c \in CallIds : CleanupEnd(c)

SpecShutdown == InitShutdown /\ [][NextShutdown]_vars

----------------------------------------------------------------------------
\* The rate limiter alone, for every configured ceiling and window

\* the connection manager constructed and never called
ManagerIdle ==
  /\ readOnlyMode = FALSE
  /\ exec = NoExec
  /\ connQueue = [conn \in Conns |-> <<>>]
  /\ activeTransactions = <<>>
  /\ connectionStats = [totalQueries |-> 0, totalErrors |-> 0, totalTransactions |-> 0]
  /\ calls = [c \in CallIds |-> NewCall]
  /\ txState = [t \in TxIds |-> "NONE"]
  /\ last = NoOutcome
  /\ probe = NoProbe
  /\ statementTimeout = [conn \in Conns |-> "server"]
  /\ handlers = {}
  /\ exited = FALSE
  /\ pool = NewPool(PoolMax)
  /\ workload = [ops |-> 0, inFlight |-> 0, timeouts |-> {}]

InitRateLimiter ==
  /\ \E maxRequests \in 0..MaxRequests, windowMs \in 1..MaxWindowMs :
       RateLimiterConstructed(maxRequests, windowMs)
  /\ RetryConstructed(3, 1000)
  /\ CacheConstructed(TRUE, MaxTtl, MaxKeys)
  /\ ManagerIdle
  /\ schemaApi = NoSchemaApi

NextRateLimiter ==
  \/ \E identifier \in Identifiers : checkLimit(identifier)
  \/ RateLimiterCleanup
  \/ \E identifier \in Identifiers : reset(identifier)
  \/ Tick

SpecRateLimiter == InitRateLimiter /\ [][NextRateLimiter]_vars

----------------------------------------------------------------------------
\* A method wrapped by withRetry, and the functions of ErrorHandler

InitRetry ==
  /\ \E maxAttempts \in 0..MaxAttempts, baseDelay \in BaseDelays :
       RetryConstructed(maxAttempts, baseDelay)
  /\ RateLimiterConstructed(MaxRequests, MaxWindowMs)
  /\ CacheConstructed(TRUE, MaxTtl, MaxKeys)
  /\ ManagerIdle
  /\ schemaApi = NoSchemaApi

NextRetry ==
  \/ \E error \in Errors : IsRetryableError(error)
  \/ \E attempt \in 1..(MaxAttempts + 3), baseDelay \in BaseDelays,
        random \in 0..(RandomSteps - 1) : GetRetryDelay(attempt, baseDelay, random)
  \/ RetryCall
  \/ OperationReturns
  \/ \E error \in Errors, random \in 0..(RandomSteps - 1) :
       OperationThrows(error, random)
  \/ RetryTimer

SpecRetry == InitRetry /\ [][NextRetry]_vars

\* the wrapped method settles (it does not stay pending for ever: it returns
\* unless it throws first), and the timer of line 189 fires
FairRetry ==
  /\ SpecRetry
  /\ WF_vars(OperationReturns)
  /\ WF_vars(RetryTimer)

----------------------------------------------------------------------------
\* The query result cache alone, for every configuration

InitCache ==
  /\ \E enabled \in BOOLEAN, ttl \in 1..MaxTtl, maxKeys \in 0..MaxKeys :
       CacheConstructed(enabled, ttl, maxKeys)
  /\ RateLimiterConstructed(MaxRequests, MaxWindowMs)
  /\ RetryConstructed(3, 1000)
  /\ ManagerIdle
  /\ schemaApi = NoSchemaApi

NextCache ==
  \/ \E request \in CacheRequests : CacheGet(request) /\ UNCHANGED schemaApi
  \/ \E request \in CacheRequests, data \in CacheData :
       CacheSet(request, data) /\ UNCHANGED schemaApi
  \/ \E pattern \in Patterns \cup {NoPattern} :
       CacheInvalidate(pattern) /\ UNCHANGED schemaApi
  \/ CacheCleanup /\ UNCHANGED schemaApi
  \/ CacheTick /\ UNCHANGED schemaApi

SpecCache == InitCache /\ [][NextCache]_vars

----------------------------------------------------------------------------
\* Vocabulary of the properties

----------------------------------------------------------------------------
\* executeTransaction alone: one call, of up to MaxStatements statements, on
\* a manager nobody else calls

\* Bound: the statements of the transaction
MaxStatements == 2

InitExec ==
  /\ Constructed
  /\ pool = NewPool(PoolMax)
  /\ workload = [ops |-> MaxStatements + 3, inFlight |-> 1, timeouts |-> {}]
  /\ \E statements \in 0..MaxStatements :
       exec = [NoExec EXCEPT !.pc = "idle", !.left = statements]

NextExec ==
  \/ \E c \in CallIds, readOnly \in BOOLEAN :
       ExecCalls = "begin" /\ BeginStart(c, readOnly)
  \/ \E c \in CallIds : BeginDirective(c)
  \/ \E c \in CallIds, ok \in BOOLEAN : BeginAfter(c, ok)
  \/ ExecValidateFails
  \/ \E c \in CallIds, sql \in Statements :
       ExecCalls = "statement" /\ QueryInTransactionStart(c, exec.tid, sql)
  \/ \E c \in CallIds, ok \in BOOLEAN : QueryInTransactionAfter(c, ok)
  \/ \E c \in CallIds : ExecCalls = "commit" /\ CommitStart(c, exec.tid)
  \/ \E c \in CallIds, ok \in BOOLEAN : CommitAfter(c, ok)
  \/ \E c \in CallIds : ExecCalls = "rollback" /\ RollbackStart(c, exec.tid)
  \/ \E c \in CallIds, ok \in BOOLEAN : RollbackAfter(c, ok)

SpecExec == InitExec /\ [][NextExec]_vars

----------------------------------------------------------------------------
\* SchemaAPIClient with a cache, for every cache configuration

InitSchema ==
  /\ \E enabled \in BOOLEAN, ttl \in 1..MaxTtl, maxKeys \in 0..MaxKeys :
       CacheConstructed(enabled, ttl, maxKeys)
  /\ RateLimiterConstructed(MaxRequests, MaxWindowMs)
  /\ RetryConstructed(3, 1000)
  /\ ManagerIdle
  /\ schemaApi = NoSchemaApi

NextSchema ==
  \/ \E includeSystem \in BOOLEAN : ListSchemas(includeSystem)
  \/ \E ok \in BOOLEAN : ListSchemasQuery(ok)
  \/ ListSchemasAfter
  \/ \E op \in SchemaOps : ChangeSchema(op)
  \/ ChangeSchemaAfter
  \/ CacheTick /\ UNCHANGED schemaApi

SpecSchema == InitSchema /\ [][NextSchema]_vars

TxOps == {"queryInTransaction", "commitTransaction", "rollbackTransaction"}

Closed == {"COMMITTED", "ROLLED_BACK"}

\* call c returns or throws in this step
Returns(c) == calls[c].pc # "done" /\ calls'[c].pc = "done"

\* this step takes conn from its holder: afterwards it is idle or closed, or
\* the pool has handed it to the caller that was first in its queue
ReleasedIn(conn) ==
  \/ conn \notin CheckedOutOf(pool')
  \/ \E w \in CallIds : /\ calls[w].pc = "connecting"
                        /\ calls'[w].pc = "connected"
                        /\ calls'[w].client = conn

----------------------------------------------------------------------------
\* C1: commitTransaction(id) and rollbackTransaction(id) on a registered id
\* always release the connection and remove the context, whether the directive
\* succeeds or raises: when the call returns or throws, the id is not
\* registered and its connection is not held.
C1_CommitRollbackAlwaysClose ==
  [][\A c \in CallIds :
       (/\ calls[c].op \in {"commitTransaction", "rollbackTransaction"}
        /\ calls[c].pc = "tx_wait"
        /\ Returns(c))
       => /\ calls[c].tid \notin RegisteredIds'
          /\ ReleasedIn(calls[c].client)]_vars

C3_ExclusiveOwnership ==
  /\ \A i, j \in 1..Len(activeTransactions) :
       i # j => activeTransactions[i].client # activeTransactions[j].client
  /\ \A conn \in RegisteredConns :
       /\ conn \notin SeqToSet(pool.idle)
       /\ \A c \in CallIds : ~(calls[c].op = "query" /\ calls[c].client = conn)

\* C4: no statement of a transaction is submitted to or running on its
\* connection once that connection has been released: while a
\* queryInTransaction statement is with the driver, its transaction is
\* registered and its connection is checked out.
C4_NoStatementAfterRelease ==
  \A c \in CallIds :
    (calls[c].op = "queryInTransaction" /\ calls[c].pc = "tx_wait")
    => /\ calls[c].tid \in RegisteredIds
       /\ calls[c].client \in CheckedOut

\* C5: calls against one transaction id are serialized by the manager: two
\* of them are never with the driver, on the transaction's connection, at
\* the same time.
C5_CallsOfOneIdSerialized ==
  \A c, d \in CallIds :
    (/\ c # d
     /\ calls[c].op \in TxOps /\ calls[c].pc = "tx_wait"
     /\ calls[d].op \in TxOps /\ calls[d].pc = "tx_wait")
    => calls[c].tid # calls[d].tid

\* C6: a beginTransaction that fails after it acquired its connection (the
\* start directive raises, or a write transaction is asked for in read-only
\* mode) releases the connection and leaves the registry and the
\* transactions-started counter as they were.
C6_BeginFailureReleases ==
  [][\A c \in CallIds :
       (/\ calls[c].op = "beginTransaction"
        /\ calls[c].pc \in {"connected", "begin_wait"}
        /\ Returns(c)
        /\ last'.res # "ok")
       => /\ ReleasedIn(calls[c].client)
          /\ activeTransactions' = activeTransactions
          /\ connectionStats'.totalTransactions = connectionStats.totalTransactions
          /\ txState' = txState]_vars

\* C6 witness: a beginTransaction whose BEGIN raised has thrown, and its
\* connection is back in the pool
C6_Witness ==
  /\ last = Outcome("beginTransaction", NoTx, "driver")
  /\ IdleCount > 0
  /\ InUseCount = 0

\* C7: a one-shot query() that acquired a connection releases it in the step
\* in which it returns or throws, whether the SET or the statement succeeded
\* or failed, and no step of a query() changes the registry.
C7_QueryReleasesAndKeepsRegistry ==
  [][\A c \in CallIds :
       /\ (calls[c].op = "query" /\ Returns(c)) => ReleasedIn(calls[c].client)
       /\ (\/ \E sql \in Statements, timeout \in Timeouts : QueryStart(c, sql, timeout)
           \/ QuerySetTimeout(c)
           \/ \E ok \in BOOLEAN : QueryAfterSet(c, ok)
           \/ \E ok \in BOOLEAN : QueryAfterStatement(c, ok))
          => /\ activeTransactions' = activeTransactions
             /\ txState' = txState]_vars

\* C7 witness: a query() whose statement (or SET) raised has thrown, and no
\* connection is checked out
C7_Witness ==
  /\ last = Outcome("query", NoTx, "driver")
  /\ connectionStats.totalErrors > 0
  /\ InFlight = {}
  /\ InUseCount = 0
  /\ IdleCount > 0

\* C8, as claimed: a beginTransaction followed by a rollbackTransaction of its
\* id, with nothing in between, returns the pool's idle count to its value
\* before the begin.
C8_IdleCountRestored ==
  probe.stage = "rolledback" => IdleCount = probe.idle

\* C8, amended: such a begin and rollback return the number of checked-out
\* connections to its value before the begin; the idle count returns to its
\* value before the begin when that was positive, and is 1 when it was 0 (the
\* begin then opened a new connection, which the rollback leaves idle).
C8_InUseCountRestored ==
  probe.stage = "rolledback"
  => /\ InUseCount = probe.inUse
     /\ IdleCount = IF probe.idle > 0 THEN probe.idle ELSE 1

\* C8 witness: a begin that took an idle connection, and its rollback, are over
C8_Witness ==
  /\ probe.stage = "rolledback"
  /\ probe.idle > 0
  /\ last.op = "rollbackTransaction"

\* C9: cleanup() releases the connection of every context it rolls back, also
\* when the ROLLBACK raises, does not propagate that failure, and leaves the
\* registry empty once its loop is over.
C9_CleanupReleasesEveryConnection ==
  [][\A c \in CallIds :
       (/\ calls[c].op = "cleanup"
        /\ calls[c].pc = "cleanup_wait"
        /\ calls'[c] # calls[c])
       => /\ ReleasedIn(calls[c].client)
          /\ last'.op # "cleanup" \/ last'.res \in {"ok", "end_twice"}
          /\ calls'[c].pc # "cleanup_wait" => activeTransactions' = <<>>]_vars

\* C10: when cleanup() runs with two transactions open and nothing else, a
\* ROLLBACK is issued on each, the registry ends empty and the pool then has
\* no connection in use.
C10_CleanupOfTwoTransactions ==
  \A c \in CallIds :
    (/\ calls[c].op = "cleanup"
     /\ calls[c].pc = "end_wait"
     /\ calls[c].flag
     /\ \A d \in CallIds : d > c => calls[d].op = "none")
    => /\ Cardinality(calls[c].visited) = 2
       /\ activeTransactions = <<>>
       /\ InUseCount = 0

----------------------------------------------------------------------------
\* a cleanup() has completed: the pool has ended and no cleanup() is running
CleanupCompleted ==
  /\ pool.ended
  /\ \A c \in CallIds : ~(calls[c].op = "cleanup" /\ calls[c].pc # "done")

\* C11: cleanup() is idempotent: a cleanup() called after one has completed
\* returns without error and leaves the registry and the pool as they were.
C11_CleanupIdempotent ==
  [][\A c \in CallIds :
       (CleanupCompleted /\ (CleanupStart(c) \/ SignalHandler(c)))
       => /\ last' = Outcome("cleanup", NoTx, "ok")
          /\ pool' = pool
          /\ activeTransactions' = activeTransactions]_vars

\* C12: once cleanup() has completed, whatever calls were in flight or were
\* made while it ran, no context is registered, no connection is held by a
\* transaction, and every acquire made afterwards is rejected.
C12_ShutdownCancels ==
  [][/\ CleanupCompleted'
        => /\ activeTransactions' = <<>>
           /\ CheckedOutOf(pool') = {}
     /\ \A c \in CallIds :
          (CleanupCompleted /\ \E readOnly \in BOOLEAN : BeginStart(c, readOnly))
          => /\ calls'[c] = DoneCall
             /\ last' = Outcome("beginTransaction", NoTx, "pool_ended")]_vars

HeldByQueries ==
  {calls[c].client : c \in {d \in CallIds : /\ calls[d].op = "query"
                                            /\ calls[d].client # NoConn}}

\* C14: the idle connections plus the connections in use, those held by
\* one-shot queries and by registered transactions, are at most pool.max.
C14_IdlePlusInUseAtMostMax ==
  IdleCount + Cardinality(RegisteredConns \cup HeldByQueries) <= pool.max

\* the call that makes an acquire in this step, or 0
Acquiring ==
  IF Starting # 0 /\ calls'[Starting].op \in {"query", "beginTransaction"}
  THEN Starting ELSE 0

C16_AcquireEventuallySettles ==
  \A c \in CallIds : (calls[c].pc = "connecting") ~> (calls[c].pc # "connecting")

\* C17: while a statement of query() or of queryInTransaction() is with the
\* driver, the statement_timeout of its connection is the one the call asked
\* for: the per-call option, or else the configured default.
C17_StatementTimeoutApplied ==
  \A c \in CallIds :
    /\ (calls[c].op = "query" /\ calls[c].pc = "stmt_wait")
       => statementTimeout[calls[c].client] = calls[c].timeout
    /\ (calls[c].op = "queryInTransaction" /\ calls[c].pc = "tx_wait"
        /\ calls[c].client \in pool.clients)
       => statementTimeout[calls[c].client] = "default"

\* C18: in a read-only transaction a statement that writes is rejected with
\* nothing sent to the driver, and the rejection leaves the transaction
\* registered with its connection.
C18_ReadOnlyTransactionRejectsWrites ==
  [][\A c \in CallIds, t \in TxIds, sql \in Statements :
       (/\ t \in RegisteredIds
        /\ Context(t).readOnly
        /\ Writes(sql)
        /\ QueryInTransactionStart(c, t, sql))
       => /\ last' = Outcome("queryInTransaction", t, "readonly")
          /\ connQueue' = connQueue
          /\ activeTransactions' = activeTransactions
          /\ pool' = pool]_vars

\* C19: in read-only mode no statement that writes reaches the driver,
\* through query() or through queryInTransaction(), and no read-write
\* transaction is registered.
C19_ReadOnlyModePreventsWrites ==
  readOnlyMode
  => /\ \A c \in CallIds :
          ~(/\ calls[c].op \in {"query", "queryInTransaction"}
            /\ calls[c].pc \in {"stmt_wait", "tx_wait"}
            /\ calls[c].flag)
     /\ \A i \in 1..Len(activeTransactions) : activeTransactions[i].readOnly

\* C20: for one identifier, a checkLimit call is admitted exactly when fewer
\* than `ceiling` calls were made before it in the current window, the
\* window being over once the clock has passed its reset time: the first
\* `ceiling` calls of every window are admitted and every further one rejected.
C20_ExactlyCeilingPerWindow ==
  [][\A identifier \in Identifiers :
       checkLimit(identifier)
       => (admitted'.result <=>
             (IF WindowOver(identifier) THEN 0 ELSE windows[identifier].calls)
               < rateLimiting.maxRequests)]_vars

\* the calls of the identifier admitted at the instants from..to
RECURSIVE AdmittedIn(_, _, _)
AdmittedIn(identifier, from, to) ==
  IF from > to THEN 0
  ELSE admittedAt[identifier][from] + AdmittedIn(identifier, from + 1, to)

\* C21: for one identifier and with no reset() in between, the checkLimit
\* calls admitted in any interval no longer than windowMs are at most twice
\* the ceiling.
C21_BoundaryBurst ==
  \A identifier \in Identifiers : \A from \in 0..MaxTime :
    AdmittedIn(identifier, from, MinOf({from + rateLimiting.windowMs, MaxTime}))
      <= 2 * rateLimiting.maxRequests

\* C22: isRetryableError is true exactly for the errors classified as
\* connection failure, timeout or pool exhaustion: false for every other kind
\* of the taxonomy and for every error that is not classified.
C22_RetryableExactly ==
  applied.fn = "isRetryableError"
  => (applied.retryable
      <=> /\ applied.error.class = "DatabaseError"
          /\ applied.error.code \in {"CONNECTION_FAILED", "TIMEOUT", "POOL_EXHAUSTED"})

\* C22 witness: a pool-exhaustion error was found retryable
C22_Witness ==
  /\ applied.fn = "isRetryableError"
  /\ applied.error = DatabaseError("POOL_EXHAUSTED", "")
  /\ applied.retryable

\* C23: the wrapped operation is invoked at most maxAttempts times; a success
\* returns at once; a failure that is not retryable, or that happens on
\* attempt maxAttempts, is propagated with no further invocation and no
\* wait; and every call of the wrapper ends, returned or thrown.
C23_RetryBounded ==
  /\ [](retry.invocations <= retry.maxAttempts)
  /\ [][/\ OperationReturns => retry'.pc = "returned"
        /\ \A error \in Errors, random \in 0..(RandomSteps - 1) :
             (/\ OperationThrows(error, random)
              /\ \/ retry.attempt = retry.maxAttempts
                 \/ retry'.lastError.code
                      \notin {"CONNECTION_FAILED", "TIMEOUT", "POOL_EXHAUSTED"})
             => /\ retry'.pc = "thrown"
                /\ retry'.waits = retry.waits
                /\ retry'.invocations = retry.invocations]_vars
  /\ (retry.pc \in {"calling", "waiting"}) ~> (retry.pc \in {"returned", "thrown"})

\* C23 witness: every attempt failed with a timeout; the last was propagated
\* after maxAttempts invocations and maxAttempts - 1 waits
C23_Witness ==
  /\ retry.pc = "thrown"
  /\ retry.maxAttempts = MaxAttempts
  /\ retry.invocations = MaxAttempts
  /\ retry.waits = MaxAttempts - 1
  /\ retry.lastError.code = "TIMEOUT"

\* the kind the taxonomy gives to a failure of the driver or of the pool,
\* "" when it is none of the retryable ones
RetryableKind(error) ==
  IF error.class = "DatabaseError"
  THEN IF error.code \in {"CONNECTION_FAILED", "TIMEOUT", "POOL_EXHAUSTED"}
       THEN error.code ELSE ""
  ELSE IF error.code \in {"08006", "ECONNREFUSED"} THEN "CONNECTION_FAILED"
  ELSE IF error.code = "57014" THEN "TIMEOUT"
  ELSE IF error.message = "timeout exceeded when trying to connect"
  THEN "POOL_EXHAUSTED"
  ELSE ""

\* C24: with attempts left, a raw connection failure of the driver, a
\* pool-acquire timeout and a statement timeout are classified as
\* CONNECTION_FAILED, POOL_EXHAUSTED and TIMEOUT and are retried; every
\* other failure is propagated at once.
C24_DriverFailuresRetried ==
  [][\A error \in Errors, random \in 0..(RandomSteps - 1) :
       (OperationThrows(error, random) /\ retry.attempt < retry.maxAttempts)
       => IF RetryableKind(error) # ""
          THEN /\ retry'.lastError.code = RetryableKind(error)
               /\ retry'.pc = "waiting"
          ELSE retry'.pc = "thrown"]_vars

\* C25: getRetryDelay(attempt, base) is at least base * 2^(attempt-1) and
\* less than 1.1 times that whenever this range lies below 30000 ms, and it
\* is at most 30000 ms for every attempt.
C25_RetryDelayRange ==
  applied.fn = "getRetryDelay"
  => LET delay == applied.baseDelay * 2 ^ (applied.attempt - 1) IN
     /\ 11 * delay <= 10 * MaxRetryDelay
        => /\ applied.delay >= delay
           /\ 10 * applied.delay < 11 * delay
     /\ applied.delay <= MaxRetryDelay

\* C25 witness: attempt 3 with base 1000 gave a delay with jitter in [4000, 4400)
C25_Witness ==
  /\ applied.fn = "getRetryDelay"
  /\ applied.attempt = 3
  /\ applied.baseDelay = 1000
  /\ applied.delay > 4000
  /\ applied.delay < 4400

\* C26: a queryInTransaction, commitTransaction or rollbackTransaction on an
\* id that is not registered fails with an error whose kind, as thrown and
\* after sanitizeError, is not the generic INTERNAL_ERROR.
C26_NotFoundDistinct ==
  (last.op \in TxOps /\ last.res = "notfound")
  => /\ isDatabaseError(NotFoundError)
     /\ sanitizeError(NotFoundError).code # "INTERNAL_ERROR"

\* C27: with the cache enabled and read-shaped sql, a get of the (sql,
\* params, options) of an earlier set, no later than the TTL after the
\* entry was written and with no eviction or invalidation in between,
\* returns the data of that set.
C27_SetThenGet ==
  [][\A request \in CacheRequests :
       (/\ CacheGet(request)
        /\ Cached(request)
        /\ stored[request].present
        /\ cacheNow - cache[IndexOfKey(keyOf[request])].timestamp <= cacheConfig.ttl)
       => returned'.data = stored[request].data]_vars

\* C28: a get issued more than the TTL after the entry was set returns
\* absent, however many gets hit the entry in between.
C28_TtlIndependentOfRecency ==
  [][\A request \in CacheRequests :
       (/\ CacheGet(request)
        /\ Cached(request)
        /\ keyOf[request] \in CacheKeys
        /\ cacheNow - cache[IndexOfKey(keyOf[request])].timestamp > cacheConfig.ttl)
       => returned'.data = "null"]_vars

LiveKeys == {cache[i].key : i \in {j \in 1..Len(cache) : ~IsStale(cache[j])}}

WriteShaped ==
  {request \in CacheRequests :
     \E op \in nonCacheableOperations :
       startsWith(toUpperCaseChars(trimChars(request.sql)), op)}

\* C31: for write-shaped sql a set stores nothing and a get returns absent,
\* and neither call changes the cache contents or the hit, miss and set
\* counters.
C31_WriteShapedNotCached ==
  [][\A request \in CacheRequests :
       request \in WriteShaped
       => /\ CacheGet(request)
             => /\ returned'.data = "null"
                /\ UNCHANGED <<cache, cacheStats, stored>>
          /\ \A data \in CacheData :
               CacheSet(request, data)
               => UNCHANGED <<cache, cacheStats, stored>>]_vars

\* C31 witness: with the cache enabled and an entry held, a set of write-shaped
\* sql returned without storing
C31_Witness ==
  /\ cacheConfig.enabled
  /\ cache # <<>>
  /\ returned = [op |-> "set", data |-> "null", count |-> 0]

\* the step is a get, or a set, that the cache serves
ServedGet == \E request \in CacheRequests : Cached(request) /\ CacheGet(request)

ServedSet ==
  \E request \in CacheRequests, data \in CacheData :
    Cached(request) /\ CacheSet(request, data)

\* C32: every get of cacheable sql with the cache enabled adds one to
\* totalHits + totalMisses and nothing else changes them, every set that
\* stores adds one to totalSets, totalDeletes grows by the number of entries
\* that left the cache by eviction, expiry or invalidation, and itemCount is
\* the current occupancy.
C32_CountersExact ==
  [][/\ (cacheStats'.hits + cacheStats'.misses) - (cacheStats.hits + cacheStats.misses)
        = IF ServedGet THEN 1 ELSE 0
     /\ cacheStats'.sets - cacheStats.sets = IF ServedSet THEN 1 ELSE 0
     /\ cacheStats'.deletes - cacheStats.deletes = Cardinality(CacheKeys \ CacheKeys')
     /\ Len(cache') = Cardinality(CacheKeys')]_vars

\* the calls of op whose statement finished in this step, with the given result
StatementDone(op, res) ==
  {c \in CallIds : /\ calls[c].op = op
                   /\ calls[c].pc \in {"stmt_wait", "tx_wait"}
                   /\ calls'[c].pc = "done"
                   /\ last' = Outcome(op, calls[c].tid, res)}

\* C33: the operational counters never decrease; a statement that completes
\* successfully, through query() or through queryInTransaction(), adds one to
\* totalQueries, a statement that fails at the driver adds one to totalErrors,
\* and a successful beginTransaction adds one to totalTransactions.
C33_CountersFollowStatements ==
  [][/\ \A field \in DOMAIN connectionStats :
          connectionStats'[field] >= connectionStats[field]
     /\ \A op \in {"query", "queryInTransaction"} :
          /\ StatementDone(op, "ok") # {}
             => connectionStats'.totalQueries = connectionStats.totalQueries + 1
          /\ StatementDone(op, "driver") # {}
             => connectionStats'.totalErrors = connectionStats.totalErrors + 1
     /\ (\E c \in CallIds : /\ calls[c].op = "beginTransaction"
                             /\ calls'[c].pc = "done"
                             /\ last'.op = "beginTransaction" /\ last'.res = "ok")
        => connectionStats'.totalTransactions = connectionStats.totalTransactions + 1]_vars

\* a commitTransaction, rollbackTransaction or cleanup call that is at the
\* context takes a step
EndingStep(ctx) ==
  \E c \in CallIds :
    /\ calls[c].op \in {"commitTransaction", "rollbackTransaction", "cleanup"}
    /\ calls[c].tid = ctx.id
    /\ calls[c].client = ctx.client
    /\ calls'[c] # calls[c]

\* C34: no step of commitTransaction, rollbackTransaction or cleanup releases
\* the connection of a registered context and leaves the context registered:
\* nothing can run between the release and the removal.
C34_ReleaseThenDeregister ==
  [][\A i \in 1..Len(activeTransactions) :
       LET ctx == activeTransactions[i]
       IN  (/\ EndingStep(ctx)
            /\ ctx.client \in CheckedOut
            /\ ReleasedIn(ctx.client))
           => ctx.id \notin RegisteredIds']_vars

\* another call holds conn: a query() or a beginTransaction() that got it from
\* the pool and has not returned
HeldByAnother(conn, c) ==
  \E d \in CallIds \ {c} :
    /\ calls[d].op \in {"query", "beginTransaction"}
    /\ calls[d].pc \notin {"new", "connecting", "done"}
    /\ calls[d].client = conn

\* C35: every connection of a transaction is released exactly once: the
\* release() of a commitTransaction or rollbackTransaction finds the connection
\* still checked out, and no release of commitTransaction, rollbackTransaction
\* or cleanup gives back a connection that another call has acquired since.
C35_ReleasedExactlyOnce ==
  [][\A c \in CallIds :
       /\ (/\ calls[c].op \in {"commitTransaction", "rollbackTransaction"}
           /\ calls[c].pc = "tx_wait"
           /\ calls'[c].pc = "done")
          => ~ReleaseThrows(calls[c].client)
       /\ (/\ calls[c].op \in {"commitTransaction", "rollbackTransaction", "cleanup"}
           /\ calls[c].pc \in {"tx_wait", "cleanup_wait"}
           /\ calls'[c] # calls[c]
           /\ calls[c].client \in CheckedOut
           /\ ReleasedIn(calls[c].client))
          => ~HeldByAnother(calls[c].client, c)]_vars

\* what getStatus(identifier) returns when no sweep has ever run: the window
\* last opened is still in the map
StatusWithoutSweep(identifier) ==
  IF WindowOver(identifier)
  THEN [remaining |-> rateLimiting.maxRequests,
        resetTime |-> now + rateLimiting.windowMs,
        totalRequests |-> 0]
  ELSE [remaining |-> AtLeastZero(rateLimiting.maxRequests - windows[identifier].count),
        resetTime |-> windows[identifier].resetTime,
        totalRequests |-> windows[identifier].count]

\* the entries whose reset time has passed
Expired == {identifier \in Identifiers :
              ~Absent(identifier) /\ now > requests[identifier].resetTime}

\* C36: the sweep removes exactly the windows whose reset time has passed and
\* leaves every other window unchanged, and whatever sweeps have run,
\* getStatus and checkLimit return what they return when no sweep ever runs.
C36_SweepIsInvisible ==
  /\ [](\A identifier \in Identifiers :
          getStatus(identifier) = StatusWithoutSweep(identifier))
  /\ [][/\ RateLimiterCleanup
           => requests' = [identifier \in Identifiers |->
                             IF identifier \in Expired THEN NoEntry
                             ELSE requests[identifier]]
        /\ \A identifier \in Identifiers :
             (windows'[identifier] # windows[identifier] /\ windows'[identifier].open)
             => /\ admitted'.identifier = identifier
                /\ admitted'.result =
                     (\/ WindowOver(identifier)
                      \/ windows[identifier].count < rateLimiting.maxRequests)]_vars

\* C36 witness: a sweep has removed the expired window of one identifier and
\* left the open window of the other, which then took a call
C36_Witness ==
  \E swept, kept \in Identifiers :
    /\ Absent(swept)
    /\ windows[swept].open
    /\ ~Absent(kept)
    /\ now <= requests[kept].resetTime
    /\ requests[kept].lastRequest > windows[swept].resetTime
    /\ admitted.identifier = kept

\* C37: a statement that fails at the driver inside queryInTransaction is
\* re-raised to the caller and changes neither the pool nor the registry: a
\* context that was registered stays registered with the same connection,
\* still checked out if it was, and the transaction stays in its state.
C37_FailedStatementKeepsTransaction ==
  [][\A c \in CallIds :
       (/\ calls[c].op = "queryInTransaction"
        /\ calls[c].pc = "tx_wait"
        /\ calls'[c].pc = "done"
        /\ last'.res # "ok")
       => /\ last' = Outcome("queryInTransaction", calls[c].tid, "driver")
          /\ UNCHANGED <<pool, activeTransactions, txState>>
          /\ calls[c].tid \in RegisteredIds
             => /\ calls[c].tid \in RegisteredIds'
                /\ activeTransactions'[CHOOSE i \in 1..Len(activeTransactions') :
                                         activeTransactions'[i].id = calls[c].tid].client
                   = calls[c].client]_vars

\* C37 witness: a statement of a transaction has just failed at the driver;
\* the transaction is ACTIVE, registered, and its connection checked out
C37_Witness ==
  /\ last.op = "queryInTransaction"
  /\ last.res = "driver"
  /\ last.tid \in RegisteredIds
  /\ txState[last.tid] = "ACTIVE"
  /\ Context(last.tid).client \in CheckedOut
  /\ InFlight = {}

\* the (whitespace- and case-normalized sql, params, options) of a request
Triple(request) ==
  <<toLowerCaseChars(trimChars(collapseSpace(request.sql))),
    request.parameters, request.options>>

\* C40: distinct triples get distinct keys, and a get returns a stored value
\* only if a set stored it under the same triple: a hit of get returns what
\* the last set of its own (sql, params, options) stored.
C40_DistinctKeys ==
  /\ [](\A one, other \in CacheRequests :
          Triple(one) # Triple(other) => keyOf[one] # keyOf[other])
  /\ [][\A request \in CacheRequests :
          (CacheGet(request) /\ returned'.data # "null")
          => /\ stored[request].present
             /\ returned'.data = stored[request].data]_vars

\* C38: when executeTransaction has returned or thrown after one of its
\* statements, a statement's validation or the final COMMIT failed, the error
\* raised to the caller is that original failure; and on return or throw the
\* transaction id is not registered and no connection is checked out.
C38_OriginalFailurePropagates ==
  exec.pc = "done"
  => /\ exec.error # NoError => exec.raised = exec.error
     /\ exec.tid \notin RegisteredIds
     /\ CheckedOut = {}

\* C39: a listSchemas made after a successful createSchema, dropSchema or
\* renameSchema never returns from the cache a list that was cached before
\* that change and is not the list the database holds.
C39_SchemaListInvalidated ==
  ~(/\ schemaApi.listed.cached
    /\ schemaApi.listed.old
    /\ ~schemaApi.listed.current)

TypeOK ==
  /\ readOnlyMode \in BOOLEAN
  /\ exited \in BOOLEAN
  /\ handlers \subseteq CallIds
  /\ pool.max \in {PoolMax, ContentionMax}
  /\ \A conn \in Conns : statementTimeout[conn] \in Timeouts \cup {"server"}
  /\ pool.clients \subseteq Conns
  /\ SeqToSet(pool.idle) \subseteq pool.clients
  /\ \A c \in CallIds : calls[c].client \in Conns \cup {NoConn}

====
